---- MODULE Spec2Model ----
(***************************************************************************)
(* A model of the ray tracer's core: vector algebra, intervals, sphere     *)
(* intersection, the ordered nearest-hit scan of SurfaceSet and the        *)
(* bounce-limited integrator ray_colour, the camera, the materials, and    *)
(* the Image with its pixels, its PPM formatter and write_to_file.         *)
(*                                                                         *)
(* Numbers are integers.  Lengths, directions and times are plain          *)
(* numbers: the integer n is the f64 n.  The sums, the products and the    *)
(* squares the code forms of such values are exact in f64, and the inputs  *)
(* are drawn so that every square root and every division the code         *)
(* performs on them is exact as well (see Exact): the integer arithmetic   *)
(* computes what the code does, and every hit time is a whole number.  A   *)
(* Vector is divided by an f64 as the code divides it, by the product with *)
(* the rounded reciprocal 1.0 / rhs, and colours are f64 that are no whole *)
(* numbers: the guards of these operations (ExactDivision, ExactProduct,   *)
(* ExactAverage) compute the f64 result bit by bit (see f64 arithmetic)    *)
(* and admit the inputs on which it is the value the integers give.  The   *)
(* two decimal constants of the code that are compared with times, 0.001   *)
(* and 0.0001, are no whole numbers: each is only the open lower bound of  *)
(* an interval and lies strictly between the times 0 and 1, so the open    *)
(* interval from 0 holds the same whole times (see ShadowAcneMin and       *)
(* entering_surface_probe).  Every zero among the inputs is the f64 +0.0.  *)
(***************************************************************************)
EXTENDS Integers, Sequences, FiniteSets, TLC

\* ------------------------------------------------------------------ bounds
\* Every hit time of the inputs lies within -MaxTime .. MaxTime.
MaxTime == 12
\* Largest number of surfaces a SurfaceSet holds in the model.
MaxSurfaces == 3

\* largest bounce budget of a call
MaxBounces == 3

\* ----------------------------------------------------------------- options
None == << >>
Some(v) == << v >>
is_some(o) == Len(o) > 0
is_none(o) == Len(o) = 0
unwrap(o) == o[1]

\* ------------------------------------------------------------ f64 helpers
\* f64::sqrt on a perfect square
sqrt(n) == CHOOSE k \in 0..(MaxTime * MaxTime * 4) : k * k <= n /\ (k + 1) * (k + 1) > n

\* f64::MAX, the upper end of the intervals of ray_colour and of the probe
\* of scatter: it stands above every time the model's numbers can hold
F64Max == 2147483647

\* f64 division where the quotient is an integer
div(p, q) == IF q > 0 THEN p \div q ELSE -(p \div (-q))

\* ------------------------------------------------------ f64 arithmetic
\* An f64 above zero is m * 2^e with the significand m of 53 bits,
\* 2^52 <= m < 2^53, written in five digits of 13 bits, the lowest first.
\* A product, a sum or a quotient of two f64 is the exact result rounded to
\* 53 bits, to the nearest and on a tie to the even significand, as the
\* IEEE 754 operations are.  The model's numbers are above zero wherever
\* they are rounded, so no sign is kept.
F64Digit == 8192

F64_zero == [kind |-> "zero", m |-> << 0, 0, 0, 0, 0 >>, e |-> 0]

F64_nan == [kind |-> "nan", m |-> << 0, 0, 0, 0, 0 >>, e |-> 0]

F64_num(m, e) == [kind |-> "num", m |-> m, e |-> e]

\* one term of the k-th digit of the product of two significands
digit_term(a, b, i, k) ==
    IF k + 1 - i >= 1 /\ k + 1 - i <= 5 THEN a[i] * b[k + 1 - i] ELSE 0

\* the sum of the terms of the k-th digit
digit_column(a, b, k) ==
    digit_term(a, b, 1, k) + digit_term(a, b, 2, k) + digit_term(a, b, 3, k)
        + digit_term(a, b, 4, k) + digit_term(a, b, 5, k)

\* the digits k to 9 of the exact product of two significands, with the
\* carry from the digits below
RECURSIVE product_digits(_, _, _, _)
product_digits(a, b, k, carry) ==
    IF k > 9 THEN << >>
    ELSE << (digit_column(a, b, k) + carry) % F64Digit >>
             \o product_digits(a, b, k + 1, (digit_column(a, b, k) + carry) \div F64Digit)

\* the exact product of two significands: nine digits, the highest 1, 2 or 3
significand_product(a, b) == product_digits(a, b, 1, 0)

\* the whole part of half a number of five digits
digits_half(q) ==
    << (q[1] \div 2) + (q[2] % 2) * (F64Digit \div 2),
       (q[2] \div 2) + (q[3] % 2) * (F64Digit \div 2),
       (q[3] \div 2) + (q[4] % 2) * (F64Digit \div 2),
       (q[4] \div 2) + (q[5] % 2) * (F64Digit \div 2),
       q[5] \div 2 >>

\* the digits k to 5 of m + carry
RECURSIVE digits_add(_, _, _)
digits_add(m, k, carry) ==
    IF k > 5 THEN << >>
    ELSE << (m[k] + carry) % F64Digit >> \o digits_add(m, k + 1, (m[k] + carry) \div F64Digit)

\* the f64 of the significand next above m; above the largest significand
\* comes the smallest, at the next exponent
significand_up(m, e) ==
    IF m = << F64Digit - 1, F64Digit - 1, F64Digit - 1, F64Digit - 1, 1 >>
    THEN F64_num(<< 0, 0, 0, 0, 1 >>, e + 1)
    ELSE F64_num(digits_add(m, 1, 1), e)

\* m * 2^e rounded: up when the bits dropped below m are above the half
\* (guard and sticky), and at the half (guard alone) when m is odd
f64_rounded(m, e, guard, sticky) ==
    IF guard /\ (sticky \/ m[1] % 2 = 1) THEN significand_up(m, e) ELSE F64_num(m, e)

\* the product p of two significands as an f64, at the exponent e of its
\* lowest bit.  A product of 106 bits drops its 53 lowest, one of 105 bits
\* its 52 lowest, which are four digits.
f64_of_product(p, e) ==
    IF p[9] >= 2
    THEN f64_rounded(digits_half(<< p[5], p[6], p[7], p[8], p[9] >>), e + 53,
                     p[5] % 2 = 1,
                     << p[1], p[2], p[3], p[4] >> # << 0, 0, 0, 0 >>)
    ELSE f64_rounded(<< p[5], p[6], p[7], p[8], p[9] >>, e + 52,
                     p[4] >= F64Digit \div 2,
                     << p[1], p[2], p[3], p[4] % (F64Digit \div 2) >> # << 0, 0, 0, 0 >>)

\* the bits the product drops are all zero
product_exact(p) ==
    /\ << p[1], p[2], p[3], p[4] >> = << 0, 0, 0, 0 >>
    /\ p[9] >= 2 => p[5] % 2 = 0

\* the f64 product a * b: NaN with NaN, zero with zero
f64_mul(a, b) ==
    IF a.kind = "nan" \/ b.kind = "nan" THEN F64_nan
    ELSE IF a.kind = "zero" \/ b.kind = "zero" THEN F64_zero
    ELSE f64_of_product(significand_product(a.m, b.m), a.e + b.e)

\* the f64 product a * b is the exact product
f64_mul_exact(a, b) ==
    \/ a.kind # "num" \/ b.kind # "num"
    \/ product_exact(significand_product(a.m, b.m))

\* the quotient of a number by a divisor: the remainder first, then the
\* digits 1 to k of the quotient; rem is the remainder of the digits above k
RECURSIVE digits_div(_, _, _, _)
digits_div(a, d, k, rem) ==
    IF k = 0 THEN << rem >>
    ELSE digits_div(a, d, k - 1, (rem * F64Digit + a[k]) % d)
             \o << (rem * F64Digit + a[k]) \div d >>

\* the quotient of 54 bits, q[2] to q[6], with its remainder q[1], as an f64
f64_of_quotient(q, e) ==
    f64_rounded(digits_half(<< q[2], q[3], q[4], q[5], q[6] >>), e,
                q[2] % 2 = 1, q[1] # 0)

\* n / d * 2^(-j) as an f64, n and d above zero: n is doubled or d is until
\* n / d lies between 1 and 2, where the quotient of n * 2^53 by d has 54
\* bits
RECURSIVE f64_of_scaled(_, _, _)
f64_of_scaled(n, d, j) ==
    IF n < d THEN f64_of_scaled(2 * n, d, j + 1)
    ELSE IF n >= 2 * d THEN f64_of_scaled(n, 2 * d, j - 1)
    ELSE f64_of_quotient(digits_div(<< 0, 0, 0, 0, 2 * n >>, d, 5, 0), -52 - j)

\* the f64 nearest to n / d, for n >= 0 and d > 0: the f64 a decimal literal
\* of that value is read as, the f64 of a whole number (d = 1), and the
\* quotient 1.0 / d (n = 1)
f64_of_ratio(n, d) == IF n = 0 THEN F64_zero ELSE f64_of_scaled(n, d, 0)

\* 2^s, 0 <= s < 65, in five digits
digits_pow2(s) ==
    << IF s \div 13 = 0 THEN 2^(s % 13) ELSE 0,
       IF s \div 13 = 1 THEN 2^(s % 13) ELSE 0,
       IF s \div 13 = 2 THEN 2^(s % 13) ELSE 0,
       IF s \div 13 = 3 THEN 2^(s % 13) ELSE 0,
       IF s \div 13 = 4 THEN 2^(s % 13) ELSE 0 >>

\* the digits k to 9 of x + m, x of nine digits and m of five
RECURSIVE digits_sum(_, _, _, _)
digits_sum(x, m, k, carry) ==
    IF k > 9 THEN << >>
    ELSE << (x[k] + (IF k <= 5 THEN m[k] ELSE 0) + carry) % F64Digit >>
             \o digits_sum(x, m, k + 1,
                           (x[k] + (IF k <= 5 THEN m[k] ELSE 0) + carry) \div F64Digit)

\* the digits k to 10 of x * f, x of nine digits and f below a digit
RECURSIVE digits_scale(_, _, _, _)
digits_scale(x, f, k, carry) ==
    IF k > 10 THEN << >>
    ELSE << ((IF k <= 9 THEN x[k] * f ELSE 0) + carry) % F64Digit >>
             \o digits_scale(x, f, k + 1,
                             ((IF k <= 9 THEN x[k] * f ELSE 0) + carry) \div F64Digit)

\* the highest digit of x that is not zero, at or below the digit t
RECURSIVE top_digit(_, _)
top_digit(x, t) == IF t = 1 \/ x[t] # 0 THEN t ELSE top_digit(x, t - 1)

\* the number of bits of v
RECURSIVE bit_length(_)
bit_length(v) == IF v = 0 THEN 0 ELSE 1 + bit_length(v \div 2)

\* the number of bits of x, of nine digits
digits_bits(x, t) == 13 * (t - 1) + bit_length(x[t])

\* y is x * 2^k with the r + k = 13 * q bits to drop in its q lowest
\* digits: the 53 bits kept are the five digits above them
f64_of_shifted(y, q, e) ==
    f64_rounded(SubSeq(y, q + 1, q + 5), e,
                y[q] >= F64Digit \div 2,
                (y[q] % (F64Digit \div 2) # 0) \/ (\E i \in 1..(q - 1) : y[i] # 0))

\* the bits that fill r bits up to whole digits
pad_bits(r) == (13 - (r % 13)) % 13

\* x * 2^e, x of nine digits and r bits too long, as an f64
f64_of_long(x, r, e) ==
    IF r = 0 THEN F64_num(SubSeq(x, 1, 5), e)
    ELSE f64_of_shifted(digits_scale(x, 2^pad_bits(r), 1, 0),
                        (r + pad_bits(r)) \div 13, e + r)

\* the sum x of two significands aligned at the exponent e, as an f64
f64_of_sum(x, e) == f64_of_long(x, digits_bits(x, top_digit(x, 9)) - 53, e)

\* the sum of two f64 above zero, the exponent of a not below that of b: b
\* is lost when it lies 55 bits or more below a
f64_add_aligned(a, b) ==
    IF a.e - b.e > 54 THEN a
    ELSE f64_of_sum(digits_sum(significand_product(a.m, digits_pow2(a.e - b.e)),
                               b.m, 1, 0), b.e)

\* the f64 sum a + b, of a and b not below zero
f64_add(a, b) ==
    IF a.kind = "nan" \/ b.kind = "nan" THEN F64_nan
    ELSE IF a.kind = "zero" THEN b
    ELSE IF b.kind = "zero" THEN a
    ELSE IF a.e >= b.e THEN f64_add_aligned(a, b) ELSE f64_add_aligned(b, a)

\* the whole number x divided by the whole number d > 0 as Vector's Div
\* does, x * (1.0 / d), is the quotient: d divides x, and the product of x
\* with the rounded reciprocal rounds to it
ExactQuotient(x, d) ==
    IF d <= 0 THEN FALSE
    ELSE /\ x % d = 0
         /\ LET n == IF x < 0 THEN -x ELSE x
            IN  f64_mul(f64_of_ratio(n, 1), f64_of_ratio(1, d)) = f64_of_ratio(n \div d, 1)

\* ----------------------------------------------------------------- Vector
Vector_new(x, y, z) == [x |-> x, y |-> y, z |-> z]

Vector_zero == Vector_new(0, 0, 0)

dot(self, rhs) == self.x * rhs.x + self.y * rhs.y + self.z * rhs.z

l2_norm_squared(self) == dot(self, self)

l2_norm(self) == sqrt(l2_norm_squared(self))

\* the vector (NaN, NaN, NaN): its components carry no value
Vector_nan == [x |-> 0, y |-> 0, z |-> 0, nan |-> TRUE]

is_nan(self) == "nan" \in DOMAIN self

\* the arithmetic of a NaN vector is NaN in every component
add(self, rhs) ==
    IF is_nan(self) \/ is_nan(rhs) THEN Vector_nan
    ELSE [x |-> self.x + rhs.x, y |-> self.y + rhs.y, z |-> self.z + rhs.z]

mul_f64(self, rhs) ==
    IF is_nan(self) THEN Vector_nan
    ELSE [x |-> self.x * rhs, y |-> self.y * rhs, z |-> self.z * rhs]

sub(self, rhs) == add(self, mul_f64(rhs, -1))

mul(self, rhs) ==
    IF is_nan(self) \/ is_nan(rhs) THEN Vector_nan
    ELSE [x |-> self.x * rhs.x, y |-> self.y * rhs.y, z |-> self.z * rhs.z]

\* self * (1.0 / rhs), for the inputs on which the product with the rounded
\* reciprocal is the whole quotient (see ExactDivision)
div_f64(self, rhs) ==
    IF is_nan(self) THEN Vector_nan
    ELSE [x |-> div(self.x, rhs), y |-> div(self.y, rhs), z |-> div(self.z, rhs)]

\* Vector's division by rhs is exact on self: in every component the
\* product with 1.0 / rhs is the whole quotient
ExactDivision(self, rhs) ==
    IF is_nan(self) THEN TRUE
    ELSE /\ ExactQuotient(self.x, rhs)
         /\ ExactQuotient(self.y, rhs)
         /\ ExactQuotient(self.z, rhs)

\* self / self.l2_norm(): the zero vector has the norm 0.0, and 0.0 * (1.0 / 0.0)
\* is NaN
normalise(self) ==
    IF l2_norm(self) = 0 THEN Vector_nan ELSE div_f64(self, l2_norm(self))

\* -------------------------------------------------------------------- Ray
Ray_new(origin, direction) == [origin |-> origin, direction |-> direction]

at(self, t) == add(self.origin, mul_f64(self.direction, t))

\* --------------------------------------------------------------- Interval
IntervalBounds == {"Open", "Closed", "LeftOpenRightClosed", "LeftClosedRightOpen"}

Interval_new(min, max, bounds) == [min |-> min, max |-> max, bounds |-> bounds]

contains(self, num) ==
    CASE self.bounds = "Open" -> self.min < num /\ num < self.max
      [] self.bounds = "Closed" -> self.min <= num /\ num <= self.max
      [] self.bounds = "LeftOpenRightClosed" -> self.min < num /\ num <= self.max
      [] self.bounds = "LeftClosedRightOpen" -> self.min <= num /\ num < self.max

\* ----------------------------------------------------------------- Sphere
\* the assertion admits a zero radius
Sphere_new_ge(center, radius) ==
    IF radius >= 0 THEN Some([center |-> center, radius |-> radius]) ELSE None

\* Sphere::new: the assertion fails (panic) unless radius > 0.0
Sphere_new(center, radius) ==
    IF radius > 0 THEN Some([center |-> center, radius |-> radius]) ELSE None

\* the farther root is tried first
Sphere_roots_far_first(self, ray) ==
    LET oc == sub(self.center, ray.origin)
        a == l2_norm_squared(ray.direction)
        h == dot(ray.direction, oc)
        c == l2_norm_squared(oc) - self.radius * self.radius
        discriminant == h * h - a * c
    IN  IF discriminant < 0 THEN << >>
        ELSE LET discriminant_sqrt == sqrt(discriminant)
             IN  << div(h + 1 * discriminant_sqrt, a),
                    div(h + (-1) * discriminant_sqrt, a) >>

\* a zero discriminant is taken for a miss
Sphere_roots_tangent_miss(self, ray) ==
    LET oc == sub(self.center, ray.origin)
        a == l2_norm_squared(ray.direction)
        h == dot(ray.direction, oc)
        c == l2_norm_squared(oc) - self.radius * self.radius
        discriminant == h * h - a * c
    IN  IF discriminant <= 0 THEN << >>
        ELSE LET discriminant_sqrt == sqrt(discriminant)
             IN  << div(h + (-1) * discriminant_sqrt, a),
                    div(h + 1 * discriminant_sqrt, a) >>

\* the two candidate roots, in the order the code tries them
\* (none when the discriminant is negative)
Sphere_roots(self, ray) ==
    LET oc == sub(self.center, ray.origin)
        a == l2_norm_squared(ray.direction)
        h == dot(ray.direction, oc)
        c == l2_norm_squared(oc) - self.radius * self.radius
        discriminant == h * h - a * c
    IN  IF discriminant < 0 THEN << >>
        ELSE LET discriminant_sqrt == sqrt(discriminant)
             IN  << div(h + (-1) * discriminant_sqrt, a),
                    div(h + 1 * discriminant_sqrt, a) >>

\* Sphere::intersection: the first root the interval contains.  For a ray
\* whose direction is the zero vector or NaN, a and h are 0.0 or NaN: the
\* discriminant is 0.0 or NaN and not below 0.0, both roots are 0.0 / 0.0 or
\* NaN, and no interval contains NaN.
Sphere_intersection(self, ray, time_interval) ==
    IF is_nan(ray.direction) \/ ray.direction = Vector_zero THEN None
    ELSE LET kept == SelectSeq(Sphere_roots(self, ray),
                               LAMBDA t : contains(time_interval, t))
         IN  IF kept = << >> THEN None ELSE Some(Head(kept))

outwards_normal(self, point) == div_f64(sub(point, self.center), self.radius)

\* the f64 product p * q is -0.0 (p and q carry no -0.0 themselves)
is_negative_zero_product(p, q) == (p = 0 /\ q < 0) \/ (q = 0 /\ p < 0)

\* the f64 dot product is -0.0: every one of its three terms is -0.0
dot_is_negative_zero(self, rhs) ==
    /\ is_negative_zero_product(self.x, rhs.x)
    /\ is_negative_zero_product(self.y, rhs.y)
    /\ is_negative_zero_product(self.z, rhs.z)

\* the sign of zero is zero
signum_zero(value, negative_zero) ==
    IF value > 0 THEN 1
    ELSE IF value < 0 THEN -1
    ELSE 0

\* f64::signum: 1.0 for positive numbers and +0.0, -1.0 for negative
\* numbers and -0.0
signum(value, negative_zero) ==
    IF value > 0 THEN 1
    ELSE IF value < 0 THEN -1
    ELSE IF negative_zero THEN -1 ELSE 1

\* the sign is not negated: the normal points along the ray
normal_against_ray_along(self, point, ray) ==
    LET n == outwards_normal(self, point)
    IN  IF is_nan(n) \/ is_nan(ray.direction) THEN Vector_nan
        ELSE normalise(mul_f64(n, signum(dot(n, ray.direction),
                                         dot_is_negative_zero(n, ray.direction))))

\* Shape::normal_against_ray, with UnitVector::from normalising the result;
\* the dot product with a NaN direction is NaN, and so are its sign and the
\* normal
normal_against_ray(self, point, ray) ==
    LET n == outwards_normal(self, point)
    IN  IF is_nan(n) \/ is_nan(ray.direction) THEN Vector_nan
        ELSE normalise(mul_f64(n, -signum(dot(n, ray.direction),
                                          dot_is_negative_zero(n, ray.direction))))

\* the f64 arithmetic of normalise is exact on v: its norm is whole, and
\* the division by it is exact
ExactNormalise(v) ==
    LET n == sqrt(l2_norm_squared(v))
    IN  /\ n > 0
        /\ n * n = l2_norm_squared(v)
        /\ ExactDivision(v, n)

\* the f64 arithmetic of the two normals is exact in the point of the
\* sphere: the division by the radius and the normalisation after it
ExactNormal(sphere, point) ==
    /\ ExactDivision(sub(point, sphere.center), sphere.radius)
    /\ ExactNormalise(outwards_normal(sphere, point))

\* The inputs on which the f64 arithmetic of Sphere::intersection is exact
Exact(sphere, ray) ==
    LET oc == sub(sphere.center, ray.origin)
        a == l2_norm_squared(ray.direction)
        h == dot(ray.direction, oc)
        c == l2_norm_squared(oc) - sphere.radius * sphere.radius
        discriminant == h * h - a * c
    IN  /\ a > 0
        /\ discriminant >= 0 =>
             LET s == sqrt(discriminant)
             IN  /\ s * s = discriminant
                 /\ (h - s) % a = 0
                 /\ (h + s) % a = 0
                 /\ div(h + s, a) < MaxTime
                 /\ div(h - s, a) > -MaxTime

\* ------------------------------------------------- Material and Surface
\* UniformSurface::new
UniformSurface_new(shape, material) == [shape |-> shape, material |-> material]

\* UniformSurface::intersection delegates to its shape
Surface_intersection(self, ray, time_interval) ==
    Sphere_intersection(self.shape, ray, time_interval)

\* ------------------------------------------------------------ SurfaceSet
SurfaceSet_new == << >>

\* the window keeps the caller's convention (the upper end is not closed)
subsequent_bounds_kept(bounds) == bounds

\* the boundary convention of every window after the first hit
subsequent_bounds(bounds) ==
    CASE bounds = "Open" -> "LeftOpenRightClosed"
      [] bounds = "Closed" -> "Closed"
      [] bounds = "LeftOpenRightClosed" -> "LeftOpenRightClosed"
      [] bounds = "LeftClosedRightOpen" -> "Closed"

\* the window is not shrunk to the hit
fold_closure_no_shrink(acc, i, s, ray, bounds) ==
    LET t_opt == Surface_intersection(s, ray, acc.window)
    IN  IF is_none(t_opt) THEN acc
        ELSE LET t == unwrap(t_opt)
                 new_out ==
                     IF t = acc.window.max /\ is_some(acc.out)
                     THEN Some([t |-> unwrap(acc.out).t,
                                surfaces |-> Append(unwrap(acc.out).surfaces, i)])
                     ELSE Some([t |-> t, surfaces |-> << i >>])
             IN  [window |-> Interval_new(acc.window.min, acc.window.max, bounds),
                  out |-> new_out]

\* a hit at the running minimum replaces the tie list
fold_closure_replace(acc, i, s, ray, bounds) ==
    LET t_opt == Surface_intersection(s, ray, acc.window)
    IN  IF is_none(t_opt) THEN acc
        ELSE LET t == unwrap(t_opt)
             IN  [window |-> Interval_new(acc.window.min, t, bounds),
                  out |-> Some([t |-> t, surfaces |-> << i >>])]

\* a hit at the running minimum is put at the front of the tie list
fold_closure_push_front(acc, i, s, ray, bounds) ==
    LET t_opt == Surface_intersection(s, ray, acc.window)
    IN  IF is_none(t_opt) THEN acc
        ELSE LET t == unwrap(t_opt)
                 new_out ==
                     IF t = acc.window.max /\ is_some(acc.out)
                     THEN Some([t |-> unwrap(acc.out).t,
                                surfaces |-> << i >> \o unwrap(acc.out).surfaces])
                     ELSE Some([t |-> t, surfaces |-> << i >>])
             IN  [window |-> Interval_new(acc.window.min, t, bounds),
                  out |-> new_out]

\* the window is shrunk from below as well
fold_closure_raise_min(acc, i, s, ray, bounds) ==
    LET t_opt == Surface_intersection(s, ray, acc.window)
    IN  IF is_none(t_opt) THEN acc
        ELSE LET t == unwrap(t_opt)
                 new_out ==
                     IF t = acc.window.max /\ is_some(acc.out)
                     THEN Some([t |-> unwrap(acc.out).t,
                                surfaces |-> Append(unwrap(acc.out).surfaces, i)])
                     ELSE Some([t |-> t, surfaces |-> << i >>])
             IN  [window |-> Interval_new(t, t, bounds),
                  out |-> new_out]

\* a nearer hit is recorded with an empty list
fold_closure_empty_list(acc, i, s, ray, bounds) ==
    LET t_opt == Surface_intersection(s, ray, acc.window)
    IN  IF is_none(t_opt) THEN acc
        ELSE LET t == unwrap(t_opt)
                 new_out ==
                     IF t = acc.window.max /\ is_some(acc.out)
                     THEN Some([t |-> unwrap(acc.out).t,
                                surfaces |-> Append(unwrap(acc.out).surfaces, i)])
                     ELSE Some([t |-> t, surfaces |-> << >>])
             IN  [window |-> Interval_new(acc.window.min, t, bounds),
                  out |-> new_out]

\* The closure folded over the surfaces.  acc.window is the fold's
\* accumulator and acc.out the captured result; i is the position of the
\* surface s in the set (the tie list holds references to the members).
fold_closure(acc, i, s, ray, bounds) ==
    LET t_opt == Surface_intersection(s, ray, acc.window)
    IN  IF is_none(t_opt) THEN acc
        ELSE LET t == unwrap(t_opt)
                 new_out ==
                     IF t = acc.window.max /\ is_some(acc.out)
                     THEN Some([t |-> unwrap(acc.out).t,
                                surfaces |-> Append(unwrap(acc.out).surfaces, i)])
                     ELSE Some([t |-> t, surfaces |-> << i >>])
             IN  [window |-> Interval_new(acc.window.min, t, bounds),
                  out |-> new_out]

\* the whole call: the fold over the surfaces in insertion order, from the
\* caller's interval and no result; folded[i] is the state after i surfaces
SurfaceSet_intersection(surfs, ray, time_interval) ==
    LET folded[i \in 0..Len(surfs)] ==
            IF i = 0 THEN [window |-> time_interval, out |-> None]
            ELSE fold_closure(folded[i - 1], i, surfs[i], ray,
                              subsequent_bounds(time_interval.bounds))
    IN  folded[Len(surfs)].out

\* ray_colour takes the first surface of the tie list
hit_surface_last(surfs, intersection) ==
    surfs[intersection.surfaces[Len(intersection.surfaces)]]

hit_surface(surfs, intersection) == surfs[intersection.surfaces[1]]

\* -------------------------------------------------------------- materials
\* Colours are counted in units of 1/ColourOne: a multiple of 20 (the sky
\* colour has a component 0.7) that can be halved once per bounce and more.
ColourOne == 20 * 2^(MaxBounces + 1)

White == Vector_new(ColourOne, ColourOne, ColourOne)

SkyBlue == Vector_new(ColourOne \div 2, (7 * ColourOne) \div 10, ColourOne)

\* the component-wise product of two colours, for the colours on which the
\* f64 product is the f64 of a whole number of units (see ExactProduct)
colour_mul(self, rhs) ==
    IF is_nan(self) \/ is_nan(rhs) THEN Vector_nan
    ELSE Vector_new(div(self.x * rhs.x, ColourOne), div(self.y * rhs.y, ColourOne),
                    div(self.z * rhs.z, ColourOne))

\* the f64 nearest to n / ColourOne: the f64 a colour of n units is, as a
\* literal of the source is read and as the background's components are
\* computed
f64_of_units(n) == f64_of_ratio(n, ColourOne)

\* the f64 product of two colour components of p and q units is the f64 of
\* the product's units
ExactUnits(p, q) ==
    /\ (p * q) % ColourOne = 0
    /\ f64_mul(f64_of_units(p), f64_of_units(q)) = f64_of_units((p * q) \div ColourOne)

\* the product of the two colours is a whole number of units in every
\* component and the f64 product rounds to it, or it is NaN
ExactProduct(self, rhs) ==
    IF is_nan(self) \/ is_nan(rhs) THEN TRUE
    ELSE /\ ExactUnits(self.x, rhs.x)
         /\ ExactUnits(self.y, rhs.y)
         /\ ExactUnits(self.z, rhs.z)

\* the red component of a colour of ray_colour
f64_red(colour) == IF is_nan(colour) THEN F64_nan ELSE f64_of_units(colour.x)

Lambertian_new(albedo) == [kind |-> "Lambertian", albedo |-> albedo]

Metal_new(albedo) == [kind |-> "Metal", albedo |-> albedo]

\* the refraction index is the fraction num / den
Dielectric_new(num, den) == [kind |-> "Dielectric", refraction_index |-> [num |-> num, den |-> den]]

\* u is the random unit vector drawn by UnitVector::random()
Lambertian_random_reflection(self, ray_direction, rebound_normal, u) ==
    Some([attenuation |-> self.albedo,
          direction |-> normalise(add(rebound_normal, u))])

\* the ray passes on unreflected
Metal_random_reflection_through(self, ray_direction, rebound_normal) ==
    Some([attenuation |-> self.albedo, direction |-> normalise(ray_direction)])

Metal_random_reflection(self, ray_direction, rebound_normal) ==
    Some([attenuation |-> self.albedo,
          direction |-> normalise(sub(ray_direction,
                                      mul_f64(mul_f64(rebound_normal, 2),
                                              dot(ray_direction, rebound_normal))))])

\* the index is inverted when the ray enters
Dielectric_relative_index_swapped(self, entering_surface) ==
    IF entering_surface
    THEN [num |-> self.refraction_index.den, den |-> self.refraction_index.num]
    ELSE self.refraction_index

\* the relative index of Dielectric::random_reflection: refraction_index
\* when the closure reports entering, 1.0 / refraction_index otherwise
Dielectric_relative_index(self, entering_surface) ==
    IF entering_surface THEN self.refraction_index
    ELSE [num |-> self.refraction_index.den, den |-> self.refraction_index.num]

\* the part of the unit direction r across the rebound normal
Dielectric_across(r, rebound_normal) ==
    sub(r, mul_f64(rebound_normal, dot(r, rebound_normal)))

\* refracted_parallel + refracted_perpendicular.  The perpendicular part is
\* across / relative_index; where it is longer than 1 the argument of
\* f64::sqrt is negative, the root is NaN and so is every component of the
\* parallel part and of the sum.
Dielectric_refracted(across, rebound_normal, relative_index) ==
    IF l2_norm_squared(mul_f64(across, relative_index.den))
           > relative_index.num * relative_index.num
    THEN Vector_nan
    ELSE add(mul_f64(mul_f64(rebound_normal, -1),
                     sqrt(1 - l2_norm_squared(div_f64(mul_f64(across, relative_index.den),
                                                      relative_index.num)))),
             div_f64(mul_f64(across, relative_index.den), relative_index.num))

\* Dielectric::random_reflection: always Some, attenuated by (1, 1, 1)
Dielectric_random_reflection(self, ray_direction, rebound_normal, entering_surface) ==
    Some([attenuation |-> Vector_new(ColourOne, ColourOne, ColourOne),
          direction |-> Dielectric_refracted(
                            Dielectric_across(normalise(ray_direction), rebound_normal),
                            rebound_normal,
                            Dielectric_relative_index(self, entering_surface))])

\* Material::random_reflection, dispatched on the material
random_reflection(self, ray_direction, rebound_normal, entering_surface, u) ==
    CASE self.kind = "Lambertian" ->
             Lambertian_random_reflection(self, ray_direction, rebound_normal, u)
      [] self.kind = "Metal" ->
             Metal_random_reflection(self, ray_direction, rebound_normal)
      [] self.kind = "Dielectric" ->
             Dielectric_random_reflection(self, ray_direction, rebound_normal, entering_surface)

\* the lower bound 0.0001 of the probe's interval, which is open: it lies
\* strictly between the whole times 0 and 1, so a whole time is above it
\* exactly when it is above 0
ProbeMin == 0

\* the probe of UniformSurface::scatter: the shape is met again ahead of the
\* point, at a time within the open (0.0001, f64::MAX)
entering_surface_probe(self, point, ray) ==
    is_some(Sphere_intersection(self.shape, Ray_new(point, ray.direction),
                                Interval_new(ProbeMin, F64Max, "Open")))

\* UniformSurface::scatter
scatter(self, point, ray, u) ==
    LET reflection == random_reflection(self.material, ray.direction,
                                        normal_against_ray(self.shape, point, ray),
                                        entering_surface_probe(self, point, ray), u)
    IN  IF is_none(reflection) THEN None
        ELSE Some([attenuation |-> unwrap(reflection).attenuation,
                   ray |-> Ray_new(point, unwrap(reflection).direction)])

\* ---------------------------------------------------------------- inputs

\* the spheres a scene is built from
SpherePool ==
    { unwrap(Sphere_new(Vector_new(2, 0, 0), 1)),
      unwrap(Sphere_new(Vector_new(4, 0, 0), 1)),
      unwrap(Sphere_new(Vector_new(2, 1, 0), 1)),
      unwrap(Sphere_new(Vector_new(4, 0, 0), 3)),
      unwrap(Sphere_new(Vector_new(-2, 0, 0), 1)) }

SurfacePool ==
    { UniformSurface_new(sp, Lambertian_new(Vector_new(1, 1, 1))) : sp \in SpherePool }

RayPool ==
    { Ray_new(Vector_new(0, 0, 0), Vector_new(1, 0, 0)),
      Ray_new(Vector_new(1, 0, 0), Vector_new(-1, 0, 0)) }

IntervalPool ==
    { Interval_new(lo, hi, b) : lo \in {0, 1}, hi \in {3, MaxTime}, b \in IntervalBounds }

\* ----------------------------------------------------------------- state
VARIABLES
    ss_surfaces,   \* SurfaceSet.surfaces
    ss_dropped,    \* how many surfaces clear() removed, while nothing was added since
    ss_added,      \* how many surfaces were added since new() or the last clear()
    ss_pc,         \* position of the intersection call: idle, scan, done
    ss_ray,        \* the call's ray
    ss_interval,   \* the call's time_interval
    ss_window,     \* the fold's accumulator
    ss_out,        \* the captured result
    ss_idx         \* position of the iterator over surfaces

ss_vars == << ss_surfaces, ss_dropped, ss_added, ss_pc, ss_ray, ss_interval, ss_window, ss_out, ss_idx >>

NoRay == Ray_new(Vector_zero, Vector_zero)
NoInterval == Interval_new(0, 0, "Closed")

ss_Init ==
    /\ ss_surfaces = SurfaceSet_new
    /\ ss_dropped = 0
    /\ ss_added = 0
    /\ ss_pc = "idle"
    /\ ss_ray = NoRay
    /\ ss_interval = NoInterval
    /\ ss_window = NoInterval
    /\ ss_out = None
    /\ ss_idx = 0

\* SurfaceSet::add
SurfaceSet_add(surface) ==
    /\ ss_pc = "idle"
    /\ Len(ss_surfaces) < MaxSurfaces
    /\ ss_surfaces' = Append(ss_surfaces, surface)
    /\ ss_added' = ss_added + 1
    /\ ss_dropped' = 0
    /\ UNCHANGED << ss_pc, ss_ray, ss_interval, ss_window, ss_out, ss_idx >>

\* clear() keeps the first surface
SurfaceSet_clear_keep_first ==
    /\ ss_pc = "idle"
    /\ ss_surfaces' = IF ss_surfaces = << >> THEN << >> ELSE << ss_surfaces[1] >>
    /\ ss_dropped' = Len(ss_surfaces)
    /\ ss_added' = 0
    /\ UNCHANGED << ss_pc, ss_ray, ss_interval, ss_window, ss_out, ss_idx >>

\* SurfaceSet::clear
SurfaceSet_clear ==
    /\ ss_pc = "idle"
    /\ ss_surfaces' = << >>
    /\ ss_dropped' = Len(ss_surfaces)
    /\ ss_added' = 0
    /\ UNCHANGED << ss_pc, ss_ray, ss_interval, ss_window, ss_out, ss_idx >>

\* SurfaceSet::intersection is entered: the fold starts from time_interval
IntersectionCall(ray, time_interval) ==
    /\ ss_pc = "idle"
    /\ \A i \in 1..Len(ss_surfaces) : Exact(ss_surfaces[i].shape, ray)
    /\ ss_pc' = "scan"
    /\ ss_ray' = ray
    /\ ss_interval' = time_interval
    /\ ss_window' = time_interval
    /\ ss_out' = None
    /\ ss_idx' = 1
    /\ UNCHANGED << ss_surfaces, ss_dropped, ss_added >>

\* one iteration of the fold
IntersectionStep ==
    /\ ss_pc = "scan"
    /\ ss_idx <= Len(ss_surfaces)
    /\ LET acc == fold_closure([window |-> ss_window, out |-> ss_out], ss_idx,
                               ss_surfaces[ss_idx], ss_ray,
                               subsequent_bounds(ss_interval.bounds))
       IN  /\ ss_window' = acc.window
           /\ ss_out' = acc.out
    /\ ss_idx' = ss_idx + 1
    /\ UNCHANGED << ss_surfaces, ss_dropped, ss_added, ss_pc, ss_ray, ss_interval >>

\* the iterator is exhausted: intersection returns out
IntersectionReturn ==
    /\ ss_pc = "scan"
    /\ ss_idx > Len(ss_surfaces)
    /\ ss_pc' = "done"
    /\ UNCHANGED << ss_surfaces, ss_dropped, ss_added, ss_ray, ss_interval, ss_window, ss_out, ss_idx >>

\* the caller drops the result
IntersectionDrop ==
    /\ ss_pc = "done"
    /\ ss_pc' = "idle"
    /\ ss_ray' = NoRay
    /\ ss_interval' = NoInterval
    /\ ss_window' = NoInterval
    /\ ss_out' = None
    /\ ss_idx' = 0
    /\ UNCHANGED << ss_surfaces, ss_dropped, ss_added >>

\* ------------------------------------------- Sphere::new and intersection
\* bounds of the inputs of the calls below
MaxCoord == 3
MaxRadius == 3

CenterPool == { Vector_new(cx, cy, 0) : cx \in (-2)..MaxCoord, cy \in 0..1 }

RadiusPool == (-1)..MaxRadius

SphereRayPool ==
    RayPool \cup { Ray_new(Vector_new(0, 0, 0), Vector_new(2, 0, 0)),
                   Ray_new(Vector_new(0, 1, 0), Vector_new(0, -1, 0)) }

VARIABLES
    sp_pc,        \* start, ready (constructed), panicked, done (intersection returned)
    sp_center,    \* Sphere::new's center argument
    sp_radius,    \* Sphere::new's radius argument
    sp_sphere,    \* the Sphere, if one was constructed
    sp_ray,       \* intersection's ray
    sp_interval,  \* intersection's time_interval
    sp_result     \* what intersection returned

sp_vars == << sp_pc, sp_center, sp_radius, sp_sphere, sp_ray, sp_interval, sp_result >>

sp_Init ==
    /\ sp_pc = "start"
    /\ sp_center = Vector_zero
    /\ sp_radius = 0
    /\ sp_sphere = None
    /\ sp_ray = NoRay
    /\ sp_interval = NoInterval
    /\ sp_result = None

\* a call of Sphere::new: it returns the Sphere or panics
SphereNewCall(center, radius) ==
    /\ sp_pc = "start"
    /\ sp_center' = center
    /\ sp_radius' = radius
    /\ sp_sphere' = Sphere_new(center, radius)
    /\ sp_pc' = IF is_some(Sphere_new(center, radius)) THEN "ready" ELSE "panicked"
    /\ UNCHANGED << sp_ray, sp_interval, sp_result >>

\* a call of Sphere::intersection on the constructed Sphere
SphereIntersectionCall(ray, time_interval) ==
    /\ sp_pc = "ready"
    /\ Exact(unwrap(sp_sphere), ray)
    /\ sp_ray' = ray
    /\ sp_interval' = time_interval
    /\ sp_result' = Sphere_intersection(unwrap(sp_sphere), ray, time_interval)
    /\ sp_pc' = "done"
    /\ UNCHANGED << sp_center, sp_radius, sp_sphere >>

\* ------------------------------------------------- normal_against_ray
AxisPool ==
    { Vector_new(1, 0, 0), Vector_new(-1, 0, 0), Vector_new(0, 1, 0),
      Vector_new(0, -1, 0), Vector_new(0, 0, 1), Vector_new(0, 0, -1) }

\* largest component of an incident direction
MaxDir == 1

DirectionPool ==
    { Vector_new(dx, dy, dz) : dx \in (-MaxDir)..MaxDir, dy \in (-MaxDir)..MaxDir,
                               dz \in (-MaxDir)..MaxDir } \ { Vector_zero }

VARIABLES
    na_pc,        \* start, done
    na_shape,     \* the Sphere
    na_axis,      \* the direction from the centre to the point the ray meets
    na_ray,       \* the incident ray
    na_result     \* what normal_against_ray returned

na_vars == << na_pc, na_shape, na_axis, na_ray, na_result >>

na_Init ==
    /\ na_pc = "start"
    /\ na_shape = [center |-> Vector_zero, radius |-> 1]
    /\ na_axis = Vector_zero
    /\ na_ray = NoRay
    /\ na_result = Vector_zero

\* a call of normal_against_ray for the point of the sphere in direction
\* axis from its centre and a ray through that point
NormalAgainstRayCall(shape, axis, direction) ==
    /\ na_pc = "start"
    /\ LET point == add(shape.center, mul_f64(axis, shape.radius))
           ray == Ray_new(sub(point, direction), direction)
       IN  /\ ExactNormal(shape, point)
           /\ na_ray' = ray
           /\ na_result' = normal_against_ray(shape, point, ray)
    /\ na_shape' = shape
    /\ na_axis' = axis
    /\ na_pc' = "done"

\* ---------------------------------------------------------------- ray_colour
\* the lower bound 0.001 of the integrator's interval, which is open.  The
\* hit times of the model are whole numbers, and 0.001 lies strictly between
\* the times 0 and 1: a whole time t is above 0.001 exactly when t > 0, so
\* the open interval from ShadowAcneMin holds the same whole times as the
\* code's.  A root at the time 0, the scattered ray leaving its own surface,
\* is left out; a root at the time 1 is the f64 1.0 and is kept.
ShadowAcneMin == 0

\* the background gradient of a ray that misses; twice_a is 2 * a.  The
\* zero direction and the NaN direction normalise to NaN: a is NaN and so is
\* every component of the blend.
background(ray) ==
    IF is_nan(normalise(ray.direction)) THEN Vector_nan
    ELSE LET twice_a == normalise(ray.direction).y + 1
         IN  div_f64(add(mul_f64(White, 2 - twice_a), mul_f64(SkyBlue, twice_a)), 2)

\* the budget is tested after the scene query
ray_colour_body_check_late(world, ray, max_ray_bounces, u) ==
    LET intersection == SurfaceSet_intersection(world, ray,
                            Interval_new(ShadowAcneMin, F64Max, "Open"))
    IN  IF is_none(intersection)
        THEN [tag |-> "return", value |-> background(ray), queries |-> 1, scatters |-> 0]
        ELSE IF max_ray_bounces = 0
        THEN [tag |-> "return", value |-> Vector_zero, queries |-> 1, scatters |-> 0]
        ELSE LET point == at(ray, unwrap(intersection).t)
                 surface == hit_surface(world, unwrap(intersection))
                 scattered_ray == scatter(surface, point, ray, u)
             IN  IF is_none(scattered_ray)
                 THEN [tag |-> "return", value |-> Vector_zero, queries |-> 1, scatters |-> 1]
                 ELSE [tag |-> "recurse",
                       attenuation |-> unwrap(scattered_ray).attenuation,
                       ray |-> unwrap(scattered_ray).ray,
                       max_ray_bounces |-> (max_ray_bounces - 1) % 256,
                       queries |-> 1, scatters |-> 1]

\* the recursive call is handed the budget it was given
ray_colour_body_same_budget(world, ray, max_ray_bounces, u) ==
    IF max_ray_bounces = 0
    THEN [tag |-> "return", value |-> Vector_zero, queries |-> 0, scatters |-> 0]
    ELSE LET intersection == SurfaceSet_intersection(world, ray,
                                 Interval_new(ShadowAcneMin, F64Max, "Open"))
         IN  IF is_none(intersection)
             THEN [tag |-> "return", value |-> background(ray), queries |-> 1, scatters |-> 0]
             ELSE LET point == at(ray, unwrap(intersection).t)
                      surface == hit_surface(world, unwrap(intersection))
                      scattered_ray == scatter(surface, point, ray, u)
                  IN  IF is_none(scattered_ray)
                      THEN [tag |-> "return", value |-> Vector_zero,
                            queries |-> 1, scatters |-> 1]
                      ELSE [tag |-> "recurse",
                            attenuation |-> unwrap(scattered_ray).attenuation,
                            ray |-> unwrap(scattered_ray).ray,
                            max_ray_bounces |-> max_ray_bounces,
                            queries |-> 1, scatters |-> 1]

\* ray_colour from the match on what scatter returned: None returns zero,
\* Some(sr) makes the recursive call with the budget less one
ray_colour_scattered(max_ray_bounces, scattered_ray) ==
    IF is_none(scattered_ray)
    THEN [tag |-> "return", value |-> Vector_zero, queries |-> 1, scatters |-> 1]
    ELSE [tag |-> "recurse",
          attenuation |-> unwrap(scattered_ray).attenuation,
          ray |-> unwrap(scattered_ray).ray,
          max_ray_bounces |-> (max_ray_bounces - 1) % 256,
          queries |-> 1, scatters |-> 1]

\* ray_colour from the test of the intersection the scene query returned:
\* None returns the background, Some scatters at the point of its first
\* surface
ray_colour_queried(world, ray, max_ray_bounces, u, intersection) ==
    IF is_none(intersection)
    THEN [tag |-> "return", value |-> background(ray), queries |-> 1, scatters |-> 0]
    ELSE ray_colour_scattered(max_ray_bounces,
                              scatter(hit_surface(world, unwrap(intersection)),
                                      at(ray, unwrap(intersection).t), ray, u))

\* One invocation of ray_colour up to its return or its recursive call:
\* what it returns, or the attenuation it keeps and the call it makes, and
\* how many scene queries and scatter calls it made.
ray_colour_body(world, ray, max_ray_bounces, u) ==
    IF max_ray_bounces = 0
    THEN [tag |-> "return", value |-> Vector_zero, queries |-> 0, scatters |-> 0]
    ELSE ray_colour_queried(world, ray, max_ray_bounces, u,
                            SurfaceSet_intersection(world, ray,
                                Interval_new(ShadowAcneMin, F64Max, "Open")))

\* the value of UnitVector::random() that is an axis exactly: it is
\* new(2 pi a, 2 pi b) = (cos cos, cos sin, sin) of the two angles and gives
\* (1, 0, 0) for the draws a = b = 0.0; at every other axis the sine or the
\* cosine of an f64 angle is off by a rounding
RandomAxis == Vector_new(1, 0, 0)

\* the f64 arithmetic of the Dielectric's refraction is exact: the root is
\* NaN; or the part across is zero, and so is its product with
\* 1.0 / relative_index; or the relative index is 1.0, and the product is
\* the part across, whose square is 0 or 1
ExactRefracted(across, relative_index) ==
    \/ l2_norm_squared(mul_f64(across, relative_index.den))
           > relative_index.num * relative_index.num
    \/ across = Vector_zero
    \/ relative_index.num = relative_index.den

\* the f64 arithmetic of the material's reflection is exact.  For the
\* Lambertian the sum of the rebound normal and the unit vector drawn is
\* normalised exactly, or it is the zero vector exactly and the direction
\* is NaN.
ExactReflection(material, ray_direction, rebound_normal, entering_surface, u) ==
    CASE material.kind = "Lambertian" ->
             /\ u = RandomAxis
             /\ \/ add(rebound_normal, u) = Vector_zero
                \/ ExactNormalise(add(rebound_normal, u))
      [] material.kind = "Metal" ->
             ExactNormalise(sub(ray_direction,
                                mul_f64(mul_f64(rebound_normal, 2),
                                        dot(ray_direction, rebound_normal))))
      [] material.kind = "Dielectric" ->
             /\ ExactNormalise(ray_direction)
             /\ ExactRefracted(Dielectric_across(normalise(ray_direction), rebound_normal),
                               Dielectric_relative_index(material, entering_surface))

\* the f64 arithmetic of the scatter call of ray_colour is exact; the probe
\* of a Dielectric is a Sphere::intersection of its own
ExactHit(surface, point, ray, u) ==
    /\ ExactNormal(surface.shape, point)
    /\ surface.material.kind = "Dielectric" =>
           Exact(surface.shape, Ray_new(point, ray.direction))
    /\ ExactReflection(surface.material, ray.direction,
                       normal_against_ray(surface.shape, point, ray),
                       entering_surface_probe(surface, point, ray), u)

\* the scene is queried with a ray that has a direction
Directed(ray) == ~is_nan(ray.direction) /\ ray.direction # Vector_zero

\* the f64 arithmetic of ray_colour after the scene query is exact.  On a
\* miss only the y component of the unit direction is used: it is NaN for a
\* ray without a direction and 0.0 for every other direction with y = 0.0.
ExactQueried(world, ray, u, intersection) ==
    IF is_none(intersection)
    THEN ~Directed(ray) \/ ray.direction.y = 0 \/ ExactNormalise(ray.direction)
    ELSE ExactHit(hit_surface(world, unwrap(intersection)),
                  at(ray, unwrap(intersection).t), ray, u)

\* the f64 arithmetic of one invocation of ray_colour is exact.  With the
\* budget 0 there is none; a ray whose direction is the zero vector or NaN
\* meets nothing and its background is NaN.
ExactBody(world, ray, max_ray_bounces, u) ==
    (max_ray_bounces # 0 /\ Directed(ray)) =>
        /\ \A i \in 1..Len(world) : Exact(world[i].shape, ray)
        /\ ExactQueried(world, ray, u,
                        SurfaceSet_intersection(world, ray,
                            Interval_new(ShadowAcneMin, F64Max, "Open")))

\* the albedos (0.5, 0.5, 0.5), (0.7, 1.0, 0.5) and (0.75, 0.5, 1.0)
Half == Vector_new(ColourOne \div 2, ColourOne \div 2, ColourOne \div 2)
Tint7 == Vector_new((7 * ColourOne) \div 10, ColourOne, ColourOne \div 2)
Tint75 == Vector_new((3 * ColourOne) \div 4, ColourOne \div 2, ColourOne)

\* The scenes of ray_colour.  A, B, F, G and H lie on the x axis, where the
\* rays of TracedRayPool meet them head-on; P and Q touch the x axis, P in
\* the point (2, 0, 0) and Q in (5, 0, 0), where such a ray grazes them.
ScenePool ==
    LET A == unwrap(Sphere_new(Vector_new(2, 0, 0), 1))
        B == unwrap(Sphere_new(Vector_new(4, 0, 0), 1))
        F == unwrap(Sphere_new(Vector_new(-2, 0, 0), 1))
        G == unwrap(Sphere_new(Vector_new(5, 0, 0), 3))
        H == unwrap(Sphere_new(Vector_new(3, 0, 0), 1))
        P == unwrap(Sphere_new(Vector_new(2, 1, 0), 1))
        Q == unwrap(Sphere_new(Vector_new(5, -1, 0), 1))
    IN  { << >>,
          << UniformSurface_new(A, Lambertian_new(Half)) >>,
          << UniformSurface_new(A, Dielectric_new(3, 2)) >>,
          << UniformSurface_new(P, Dielectric_new(3, 2)) >>,
          << UniformSurface_new(G, Metal_new(Half)),
             UniformSurface_new(H, Lambertian_new(White)) >>,
          << UniformSurface_new(A, Metal_new(Half)),
             UniformSurface_new(F, Metal_new(White)) >>,
          << UniformSurface_new(P, Metal_new(Tint7)),
             UniformSurface_new(Q, Metal_new(Tint75)) >>,
          << UniformSurface_new(F, Lambertian_new(Half)),
             UniformSurface_new(P, Metal_new(Tint75)) >>,
          << UniformSurface_new(F, Lambertian_new(Tint75)),
             UniformSurface_new(A, Dielectric_new(3, 2)),
             UniformSurface_new(B, Lambertian_new(Half)) >> }

\* the rays ray_colour is called with: along the x axis both ways, along
\* the y axis, and a ray without a direction, as Ray::from_two_points builds
\* it from two equal points
TracedRayPool ==
    RayPool \cup { Ray_new(Vector_new(0, 0, 0), Vector_new(0, 1, 0)),
                   Ray_new(Vector_new(0, 0, 0), Vector_zero) }

\* the values of UnitVector::random(): (1, 0, 0), which it returns for the
\* draws 0.0 and 0.0, and (0, 0, 1) for the materials that do not use it
UnitPool == { RandomAxis, Vector_new(0, 0, 1) }

VARIABLES
    rc_pc,        \* idle, call (an invocation is entered), return, done
    rc_world,     \* the scene
    rc_arg,       \* the ray and the budget of the outermost call
    rc_ray,       \* the ray of the invocation entered
    rc_budget,    \* the max_ray_bounces of the invocation entered (a u8)
    rc_frames,    \* the attenuations of the invocations awaiting their callee
    rc_value,     \* the colour being returned
    rc_red,       \* the red component of the colour being returned, as an f64
    rc_rounded,   \* history: an f64 product of the call was rounded
    rc_queries,   \* scene queries made since the outermost call
    rc_scatters,  \* scatter calls made since the outermost call
    rc_trace      \* history: the ray, budget and random draw of each invocation

rc_vars == << rc_pc, rc_world, rc_arg, rc_ray, rc_budget, rc_frames, rc_value,
              rc_red, rc_rounded, rc_queries, rc_scatters, rc_trace >>

rc_Init ==
    /\ rc_pc = "idle"
    /\ rc_world = << >>
    /\ rc_arg = [ray |-> NoRay, max_ray_bounces |-> 0]
    /\ rc_ray = NoRay
    /\ rc_budget = 0
    /\ rc_frames = << >>
    /\ rc_value = Vector_zero
    /\ rc_red = F64_zero
    /\ rc_rounded = FALSE
    /\ rc_queries = 0
    /\ rc_scatters = 0
    /\ rc_trace = << >>

\* ray_colour is called on a scene
RayColourCall(world, ray, max_ray_bounces) ==
    /\ rc_pc = "idle"
    /\ rc_pc' = "call"
    /\ rc_world' = world
    /\ rc_arg' = [ray |-> ray, max_ray_bounces |-> max_ray_bounces]
    /\ rc_ray' = ray
    /\ rc_budget' = max_ray_bounces
    /\ rc_frames' = << >>
    /\ rc_value' = Vector_zero
    /\ rc_red' = F64_zero
    /\ rc_rounded' = FALSE
    /\ rc_queries' = 0
    /\ rc_scatters' = 0
    /\ rc_trace' = << >>

\* the outcome b of the invocation entered takes effect: the colour is
\* returned, or the attenuation is kept and the recursive call is entered
RayColourOutcome(b) ==
    /\ rc_queries' = rc_queries + b.queries
    /\ rc_scatters' = rc_scatters + b.scatters
    /\ IF b.tag = "return"
       THEN /\ rc_pc' = "return"
            /\ rc_value' = b.value
            /\ rc_red' = f64_red(b.value)
            /\ UNCHANGED << rc_ray, rc_budget, rc_frames >>
       ELSE /\ rc_pc' = "call"
            /\ rc_frames' = Append(rc_frames, b.attenuation)
            /\ rc_ray' = b.ray
            /\ rc_budget' = b.max_ray_bounces
            /\ UNCHANGED << rc_value, rc_red >>

\* the invocation entered runs to its return or to its recursive call
RayColourBody(u) ==
    /\ rc_pc = "call"
    /\ ExactBody(rc_world, rc_ray, rc_budget, u)
    /\ RayColourOutcome(ray_colour_body(rc_world, rc_ray, rc_budget, u))
    /\ rc_trace' = Append(rc_trace, [ray |-> rc_ray, max_ray_bounces |-> rc_budget, u |-> u])
    /\ UNCHANGED << rc_world, rc_arg, rc_rounded >>

\* the awaiting invocation passes the returned colour on as it is
RayColourMultiply_unattenuated ==
    /\ rc_pc = "return"
    /\ rc_frames # << >>
    /\ rc_value' = rc_value
    /\ rc_frames' = SubSeq(rc_frames, 1, Len(rc_frames) - 1)
    /\ UNCHANGED << rc_pc, rc_world, rc_arg, rc_ray, rc_budget, rc_red, rc_rounded,
                    rc_queries, rc_scatters, rc_trace >>

\* an awaiting invocation multiplies the returned colour by its attenuation
RayColourMultiply ==
    /\ rc_pc = "return"
    /\ rc_frames # << >>
    /\ ExactProduct(rc_frames[Len(rc_frames)], rc_value)
    /\ rc_value' = colour_mul(rc_frames[Len(rc_frames)], rc_value)
    /\ rc_red' = f64_mul(f64_red(rc_frames[Len(rc_frames)]), rc_red)
    /\ rc_rounded' = (rc_rounded \/ ~f64_mul_exact(f64_red(rc_frames[Len(rc_frames)]), rc_red))
    /\ rc_frames' = SubSeq(rc_frames, 1, Len(rc_frames) - 1)
    /\ UNCHANGED << rc_pc, rc_world, rc_arg, rc_ray, rc_budget, rc_queries, rc_scatters,
                    rc_trace >>

\* the outermost invocation returns
RayColourReturn ==
    /\ rc_pc = "return"
    /\ rc_frames = << >>
    /\ rc_pc' = "done"
    /\ UNCHANGED << rc_world, rc_arg, rc_ray, rc_budget, rc_frames, rc_value, rc_red,
                    rc_rounded, rc_queries, rc_scatters, rc_trace >>

\* ------------------------------------------------------------------ Camera

\* Interval::empty, the interval [0.0, 0.0]
Interval_empty == Interval_new(0, 0, "Closed")

\* Interval::size
Interval_size(self) == self.max - self.min

\* Ray::from_two_points
Ray_from_two_points(origin, second_point) ==
    [origin |-> origin, direction |-> sub(second_point, origin)]

\* Pixel coordinates and the values of rand::random::<f64>(), which lie in
\* [0, 1), are counted in units of 1/SubPixel.
SubPixel == 4

\* the sample space of the antialiasing rays, [-0.5, 0.5]
diffusion == Interval_new(-(SubPixel \div 2), SubPixel \div 2, "Closed")

\* the largest u8
U8Max == 255

\* the viewport's vertical vector is not turned downwards
Camera_new_viewport_up(image_width, image_height, viewport_width, viewport_height, focal_length, antialiasing, max_ray_bounces) ==
    LET eye_point == Vector_new(0, 0, 0)
        viewport_u == Vector_new(viewport_width, 0, 0)
        viewport_v == Vector_new(0, viewport_height, 0)
        pixel_delta_u == div_f64(viewport_u, image_width)
        pixel_delta_v == div_f64(viewport_v, image_height)
        viewport_upper_left ==
            sub(sub(sub(eye_point, div_f64(viewport_u, 2)), div_f64(viewport_v, 2)),
                Vector_new(0, 0, focal_length))
    IN  [image_width |-> image_width,
         image_height |-> image_height,
         antialiasing |-> antialiasing,
         eye_point |-> eye_point,
         pixel_delta_u |-> pixel_delta_u,
         pixel_delta_v |-> pixel_delta_v,
         pixel00 |-> add(viewport_upper_left,
                         div_f64(add(pixel_delta_u, pixel_delta_v), 2)),
         max_ray_bounces |-> max_ray_bounces]

\* Camera::new
Camera_new(image_width, image_height, viewport_width, viewport_height, focal_length, antialiasing, max_ray_bounces) ==
    LET eye_point == Vector_new(0, 0, 0)
        viewport_u == Vector_new(viewport_width, 0, 0)
        viewport_v == Vector_new(0, -viewport_height, 0)
        pixel_delta_u == div_f64(viewport_u, image_width)
        pixel_delta_v == div_f64(viewport_v, image_height)
        viewport_upper_left ==
            sub(sub(sub(eye_point, div_f64(viewport_u, 2)), div_f64(viewport_v, 2)),
                Vector_new(0, 0, focal_length))
    IN  [image_width |-> image_width,
         image_height |-> image_height,
         antialiasing |-> antialiasing,
         eye_point |-> eye_point,
         pixel_delta_u |-> pixel_delta_u,
         pixel_delta_v |-> pixel_delta_v,
         pixel00 |-> add(viewport_upper_left,
                         div_f64(add(pixel_delta_u, pixel_delta_v), 2)),
         max_ray_bounces |-> max_ray_bounces]

\* the f64 arithmetic of Camera::new and of build_ray is exact: a pixel is
\* SubPixel whole units of length wide and high
ExactCamera(image_width, image_height, viewport_width, viewport_height) ==
    /\ viewport_width % (SubPixel * image_width) = 0
    /\ viewport_height % (SubPixel * image_height) = 0
    /\ ExactQuotient(viewport_width, image_width)
    /\ ExactQuotient(viewport_height, image_height)

\* the lower end of the sample space is left out
build_ray_no_min(self, x, y, sample_space, rand_x, rand_y) ==
    LET x1 == x * SubPixel + div(Interval_size(sample_space) * rand_x, SubPixel)
        y1 == y * SubPixel + div(Interval_size(sample_space) * rand_y, SubPixel)
    IN  Ray_from_two_points(
            self.eye_point,
            add(add(self.pixel00, div_f64(mul_f64(self.pixel_delta_u, x1), SubPixel)),
                div_f64(mul_f64(self.pixel_delta_v, y1), SubPixel)))

\* Camera::build_ray; rand_x and rand_y are the two values drawn
build_ray(self, x, y, sample_space, rand_x, rand_y) ==
    LET x1 == x * SubPixel + sample_space.min
                  + div(Interval_size(sample_space) * rand_x, SubPixel)
        y1 == y * SubPixel + sample_space.min
                  + div(Interval_size(sample_space) * rand_y, SubPixel)
    IN  Ray_from_two_points(
            self.eye_point,
            add(add(self.pixel00, div_f64(mul_f64(self.pixel_delta_u, x1), SubPixel)),
                div_f64(mul_f64(self.pixel_delta_v, y1), SubPixel)))

\* the values rand::random::<f64>() is drawn from
RandPool == 0..(SubPixel - 1)

\* ray_colour as the function it is: us holds the random unit vectors of
\* the successive invocations
RECURSIVE ray_colour(_, _, _, _)
RECURSIVE ray_colour_of(_, _, _)
ray_colour_of(b, world, us) ==
    IF b.tag = "return" THEN b.value
    ELSE colour_mul(b.attenuation, ray_colour(world, b.ray, b.max_ray_bounces, Tail(us)))

ray_colour(world, ray, max_ray_bounces, us) ==
    ray_colour_of(ray_colour_body(world, ray, max_ray_bounces, Head(us)), world, us)

\* the f64 arithmetic of a whole ray_colour call is exact
RECURSIVE ExactTrace(_, _, _, _)
RECURSIVE ExactTrace_of(_, _, _)
ExactTrace_of(b, world, us) ==
    b.tag = "recurse" =>
        /\ ExactTrace(world, b.ray, b.max_ray_bounces, Tail(us))
        /\ ExactProduct(b.attenuation,
                        ray_colour(world, b.ray, b.max_ray_bounces, Tail(us)))

ExactTrace(world, ray, max_ray_bounces, us) ==
    /\ ExactBody(world, ray, max_ray_bounces, Head(us))
    /\ ExactTrace_of(ray_colour_body(world, ray, max_ray_bounces, Head(us)), world, us)

\* the two values the i-th build_ray call of a pixel draws
DrawAt(draws, i) == draws[(i % Len(draws)) + 1]

\* the direct ray is left out
pixel_rays_no_direct(self, x, y, draws) ==
    [i \in 1..self.antialiasing |->
        [sample_space |-> diffusion,
         ray |-> build_ray(self, x, y, diffusion, DrawAt(draws, i).x, DrawAt(draws, i).y),
         max_ray_bounces |-> self.max_ray_bounces]]

\* The rays render traces for the pixel (x, y), in the order it traces them:
\* the antialiasing rays, built one by one, then the direct ray, which was
\* built first of all.
pixel_rays(self, x, y, draws) ==
    [i \in 1..(self.antialiasing + 1) |->
        IF i <= self.antialiasing
        THEN [sample_space |-> diffusion,
              ray |-> build_ray(self, x, y, diffusion, DrawAt(draws, i).x, DrawAt(draws, i).y),
              max_ray_bounces |-> self.max_ray_bounces]
        ELSE [sample_space |-> Interval_empty,
              ray |-> build_ray(self, x, y, Interval_empty,
                                DrawAt(draws, 0).x, DrawAt(draws, 0).y),
              max_ray_bounces |-> self.max_ray_bounces]]

\* the rays of a pixel with the colour ray_colour returns for each
traced_rays(world, rays, us) ==
    [i \in DOMAIN rays |->
        [sample_space |-> rays[i].sample_space,
         ray |-> rays[i].ray,
         max_ray_bounces |-> rays[i].max_ray_bounces,
         colour |-> ray_colour(world, rays[i].ray, rays[i].max_ray_bounces, us)]]

\* the sum of the colours lo..hi of the rays, for the colours whose f64
\* sums are exact in the order of the fold (see ExactFold).  The exact sums
\* are associative, so the range is summed by halves: the evaluation stays
\* shallow for the 256 rays of the largest antialiasing.
RECURSIVE sum_between(_, _, _)
sum_between(traced, lo, hi) ==
    IF lo > hi THEN Vector_zero
    ELSE IF lo = hi THEN add(Vector_zero, traced[lo].colour)
    ELSE add(sum_between(traced, lo, (lo + hi) \div 2),
             sum_between(traced, ((lo + hi) \div 2) + 1, hi))

\* Iterator::sum of the colours of the rays: a fold of + from Vector::zero()
vector_sum(traced) == sum_between(traced, 1, Len(traced))

\* the sum is not averaged
vector_average_undivided(self, traced) == vector_sum(traced)

\* the colour of the pixel: vector_sum / (self.antialiasing as f64 + 1.0)
vector_average(self, traced) == div_f64(vector_sum(traced), self.antialiasing + 1)

\* the f64 arithmetic of every ray_colour call of the pixel is exact
ExactRays(world, rays, us) ==
    { i \in DOMAIN rays :
        ~ExactTrace(world, rays[i].ray, rays[i].max_ray_bounces, us) } = { }

\* the f64 sum of two colour components of s and c units is the f64 of the
\* sum's units
ExactAdd(s, c) == f64_add(f64_of_units(s), f64_of_units(c)) = f64_of_units(s + c)

\* the f64 sum of the colour c onto the sum s of the colours before it is
\* exact
ExactStep(s, c) ==
    IF is_nan(s) \/ is_nan(c) THEN TRUE
    ELSE ExactAdd(s.x, c.x) /\ ExactAdd(s.y, c.y) /\ ExactAdd(s.z, c.z)

\* the f64 sums of the fold are exact on the colours lo..hi, s being the sum
\* of the colours before them: each colour onto the sum of the colours
\* before it.  The range is checked by halves, as sum_between sums it.
RECURSIVE ExactFold(_, _, _, _)
ExactFold(traced, lo, hi, s) ==
    IF lo > hi THEN TRUE
    ELSE IF lo = hi THEN ExactStep(s, traced[lo].colour)
    ELSE /\ ExactFold(traced, lo, (lo + hi) \div 2, s)
         /\ ExactFold(traced, ((lo + hi) \div 2) + 1, hi,
                      add(s, sum_between(traced, lo, (lo + hi) \div 2)))

\* the f64 product of s units with 1.0 / n is the f64 of the quotient's units
ExactShare(s, n) ==
    /\ s % n = 0
    /\ f64_mul(f64_of_units(s), f64_of_ratio(1, n)) = f64_of_units(s \div n)

\* the f64 sum of the colours and its division are exact
ExactAverage(self, traced) ==
    IF ~ExactFold(traced, 1, Len(traced), Vector_zero) THEN FALSE
    ELSE IF is_nan(vector_sum(traced)) THEN TRUE
    ELSE /\ ExactShare(vector_sum(traced).x, self.antialiasing + 1)
         /\ ExactShare(vector_sum(traced).y, self.antialiasing + 1)
         /\ ExactShare(vector_sum(traced).z, self.antialiasing + 1)

\* the closure vector_generator of Camera::render on the pixel (x, y): the
\* average of the colours of its rays
render_vector_generator(self, world, draws, us, x, y) ==
    vector_average(self, traced_rays(world, pixel_rays(self, x, y, draws), us))

\* the f64 arithmetic of the closure is exact on every pixel of the image
ExactRender(self, world, draws, us) ==
    { p \in (0..(self.image_width - 1)) \X (0..(self.image_height - 1)) :
        \/ ~ExactRays(world, pixel_rays(self, p[1], p[2], draws), us)
        \/ ~ExactAverage(self, traced_rays(world, pixel_rays(self, p[1], p[2], draws), us)) }
        = { }

\* most antialiasing rays of a pixel, but for the largest u8
MaxAntialiasing == 3

\* the cameras: a row or two rows of two pixels, SubPixel units each, at
\* the focal length 2; and the image of one pixel, whose centre lies on the
\* axis of the camera, at the focal lengths 2 and 0
CameraPool ==
    { << 2, h[1], 2 * SubPixel, h[2], 2, a, b >> :
        h \in { << 1, SubPixel >>, << 1, 2 * SubPixel >>, << 2, 2 * SubPixel >> },
        a \in 0..MaxAntialiasing, b \in 0..MaxBounces }
    \cup { << 2, 1, 2 * SubPixel, SubPixel, 2, U8Max, 0 >> }
    \cup { << 1, 1, SubPixel, SubPixel, f, a, b >> :
             f \in {0, 2}, a \in 0..1, b \in 0..MaxBounces }

\* the scenes in front of the camera: S2 is met head-on by the ray along
\* the camera's axis, S3 is grazed by it in the point (0, 0, -4)
CameraScenePool ==
    LET S0 == unwrap(Sphere_new(Vector_new(0, 0, -6), 2))
        S2 == unwrap(Sphere_new(Vector_new(0, 0, -4), 2))
        S3 == unwrap(Sphere_new(Vector_new(2, 0, -4), 2))
    IN  { << >>,
          << UniformSurface_new(S2, Metal_new(Half)) >>,
          << UniformSurface_new(S3, Lambertian_new(Half)) >>,
          << UniformSurface_new(S3, Dielectric_new(3, 2)) >>,
          << UniformSurface_new(S0, Metal_new(Tint75)),
             UniformSurface_new(S3, Metal_new(Tint7)) >> }

\* the values the build_ray calls of a pixel draw, repeated in turn
DrawsPool ==
    { << p >> : p \in [x : RandPool, y : RandPool] }
    \cup { << p, q >> : p \in [x : RandPool, y : {SubPixel \div 2}],
                         q \in [x : RandPool, y : {SubPixel \div 2}] }

\* the random unit vectors of the scatter calls of a pixel
UsPool ==
    { [k \in 1..(MaxBounces + 1) |-> u] : u \in UnitPool }

VARIABLES
    cm_camera,    \* the Camera, once constructed
    cm_built,     \* the last build_ray call: its arguments, draws and ray
    cm_pixel,     \* the last pixel rendered: its arguments, rays and colour
    cm_render     \* the render call: its arguments and whether the file was created

cm_vars == << cm_camera, cm_built, cm_pixel, cm_render >>

cm_Init ==
    /\ cm_camera = None
    /\ cm_built = None
    /\ cm_pixel = None
    /\ cm_render = None

\* Camera::new
CameraNewCall(image_width, image_height, viewport_width, viewport_height, focal_length, antialiasing, max_ray_bounces) ==
    /\ is_none(cm_camera)
    /\ ExactCamera(image_width, image_height, viewport_width, viewport_height)
    /\ cm_camera' = Some(Camera_new(image_width, image_height, viewport_width,
                                    viewport_height, focal_length, antialiasing,
                                    max_ray_bounces))
    /\ cm_built' = None
    /\ cm_pixel' = None
    /\ cm_render' = None

\* Camera::build_ray on a pixel of the image, the first call on the camera
BuildRayCall(x, y, sample_space, rand_x, rand_y) ==
    /\ is_some(cm_camera)
    /\ is_none(cm_built) /\ is_none(cm_pixel) /\ is_none(cm_render)
    /\ x < unwrap(cm_camera).image_width
    /\ y < unwrap(cm_camera).image_height
    /\ cm_built' = Some([x |-> x, y |-> y, sample_space |-> sample_space,
                         rand_x |-> rand_x, rand_y |-> rand_y,
                         ray |-> build_ray(unwrap(cm_camera), x, y, sample_space,
                                           rand_x, rand_y)])
    /\ cm_pixel' = None
    /\ UNCHANGED << cm_camera, cm_render >>

\* the closure vector_generator of Camera::render has traced the rays of a
\* pixel: it returns their average
RenderPixelOutcome(world, x, y, us, traced) ==
    /\ ExactAverage(unwrap(cm_camera), traced)
    /\ cm_pixel' = Some([world |-> world, x |-> x, y |-> y, us |-> us, rays |-> traced,
                         colour |-> vector_average(unwrap(cm_camera), traced)])

\* the closure vector_generator of render is called on a pixel of the image,
\* as the iterator of the image calls it for each pixel (see RenderCall for
\* the whole of render); the first call on the camera
RenderPixelCall(world, x, y, draws, us) ==
    /\ is_some(cm_camera)
    /\ is_none(cm_built) /\ is_none(cm_pixel) /\ is_none(cm_render)
    /\ x < unwrap(cm_camera).image_width
    /\ y < unwrap(cm_camera).image_height
    /\ ExactRays(world, pixel_rays(unwrap(cm_camera), x, y, draws), us)
    /\ RenderPixelOutcome(world, x, y, us,
                          traced_rays(world, pixel_rays(unwrap(cm_camera), x, y, draws), us))
    /\ cm_built' = None
    /\ UNCHANGED << cm_camera, cm_render >>

\* ---------------------------------------------------- UniformSurface::scatter
\* A scatter call step by step: the material's random_reflection is entered
\* with the closure entering_surface, which runs the probe when it is called.

\* the spheres, materials and rays of the scatter calls
ScatterSurfacePool ==
    { UniformSurface_new(sp, mt) :
        sp \in { unwrap(Sphere_new(Vector_new(2, 0, 0), 1)),
                 unwrap(Sphere_new(Vector_new(2, 1, 0), 1)),
                 unwrap(Sphere_new(Vector_new(6, 0, 0), 2)),
                 unwrap(Sphere_new(Vector_new(0, 0, 0), 3)) },
        mt \in { Lambertian_new(Half), Lambertian_new(White), Metal_new(Half),
                 Metal_new(SkyBlue), Dielectric_new(3, 2) } }

ScatterRayPool ==
    { Ray_new(Vector_new(0, 0, 0), d) :
        d \in { Vector_new(1, 0, 0), Vector_new(2, 0, 0), Vector_new(-1, 0, 0),
                Vector_new(0, 1, 0), Vector_new(0, 0, -1) } }

VARIABLES
    sc_pc,        \* idle, reflect (random_reflection is entered), probed, done
    sc_surface,   \* the UniformSurface
    sc_point,     \* the point argument
    sc_ray,       \* the ray argument
    sc_u,         \* the unit vector UnitVector::random() returns, if called
    sc_probes,    \* how many times the closure entering_surface has run
    sc_entering,  \* what the closure returned
    sc_relative,  \* the relative index the Dielectric computed
    sc_result     \* the Option<ScatteredRay> returned

sc_vars == << sc_pc, sc_surface, sc_point, sc_ray, sc_u, sc_probes, sc_entering, sc_relative, sc_result >>

sc_Init ==
    /\ sc_pc = "idle"
    /\ sc_surface = None
    /\ sc_point = None
    /\ sc_ray = None
    /\ sc_u = None
    /\ sc_probes = 0
    /\ sc_entering = None
    /\ sc_relative = None
    /\ sc_result = None

\* the f64 arithmetic of the scatter call is exact, for a ray that meets
\* the shape in the point
ExactScatter(surface, point, ray, u) ==
    /\ Exact(surface.shape, ray)
    /\ ExactHit(surface, point, ray, u)

\* the closure is run before the material is asked
ScatterCall_eager(surface, point, ray, u) ==
    /\ sc_pc = "idle"
    /\ ExactScatter(surface, point, ray, u)
    /\ sc_pc' = "reflect"
    /\ sc_surface' = Some(surface)
    /\ sc_point' = Some(point)
    /\ sc_ray' = Some(ray)
    /\ sc_u' = Some(u)
    /\ sc_probes' = 1
    /\ sc_entering' = Some(entering_surface_probe(surface, point, ray))
    /\ sc_relative' = None
    /\ sc_result' = None

\* scatter is called with a point of the surface the ray meets: it defines
\* the closure, which does not run it, and calls the material's
\* random_reflection
ScatterCall(surface, point, ray, u) ==
    /\ sc_pc = "idle"
    /\ ExactScatter(surface, point, ray, u)
    /\ sc_pc' = "reflect"
    /\ sc_surface' = Some(surface)
    /\ sc_point' = Some(point)
    /\ sc_ray' = Some(ray)
    /\ sc_u' = Some(u)
    /\ sc_probes' = 0
    /\ sc_entering' = None
    /\ sc_relative' = None
    /\ sc_result' = None

\* the rebound normal scatter hands to the material
sc_rebound_normal ==
    normal_against_ray(unwrap(sc_surface).shape, unwrap(sc_point), unwrap(sc_ray))

\* scatter returns: None when the reflection is None (the ? operator), else
\* the attenuation with the ray from the point in the reflection's direction
ScatterReturn(reflection) ==
    /\ sc_result' = IF is_none(reflection) THEN None
                    ELSE Some([attenuation |-> unwrap(reflection).attenuation,
                               ray |-> Ray_new(unwrap(sc_point),
                                               unwrap(reflection).direction)])
    /\ sc_pc' = "done"
    /\ UNCHANGED << sc_surface, sc_point, sc_ray, sc_u, sc_probes, sc_entering >>

\* Lambertian::random_reflection: the closure _entering_surface is not called
LambertianReflect ==
    /\ sc_pc = "reflect"
    /\ unwrap(sc_surface).material.kind = "Lambertian"
    /\ UNCHANGED sc_relative
    /\ ScatterReturn(Lambertian_random_reflection(unwrap(sc_surface).material,
                                                  unwrap(sc_ray).direction,
                                                  sc_rebound_normal, unwrap(sc_u)))

\* Metal::random_reflection: the closure _entering_surface is not called
MetalReflect ==
    /\ sc_pc = "reflect"
    /\ unwrap(sc_surface).material.kind = "Metal"
    /\ UNCHANGED sc_relative
    /\ ScatterReturn(Metal_random_reflection(unwrap(sc_surface).material,
                                             unwrap(sc_ray).direction, sc_rebound_normal))

\* Dielectric::random_reflection begins with the call entering_surface(),
\* which runs the probe
DielectricProbe ==
    /\ sc_pc = "reflect"
    /\ unwrap(sc_surface).material.kind = "Dielectric"
    /\ sc_entering' = Some(entering_surface_probe(unwrap(sc_surface), unwrap(sc_point),
                                                  unwrap(sc_ray)))
    /\ sc_probes' = sc_probes + 1
    /\ sc_pc' = "probed"
    /\ UNCHANGED << sc_surface, sc_point, sc_ray, sc_u, sc_relative, sc_result >>

\* the rest of Dielectric::random_reflection, with the closure's value
DielectricReflect ==
    /\ sc_pc = "probed"
    /\ sc_relative' = Some(Dielectric_relative_index(unwrap(sc_surface).material,
                                                     unwrap(sc_entering)))
    /\ ScatterReturn(Dielectric_random_reflection(unwrap(sc_surface).material,
                                                  unwrap(sc_ray).direction,
                                                  sc_rebound_normal, unwrap(sc_entering)))

\* ------------------------------------------------------------------ Image
\* Colour components are counted in units of 1 / ColourScale; the generators
\* of the model return multiples of it, on which v * 255.0 is exact in f64.
ColourScale == 16

\* largest height and width of an Image: the fields are u16
U16Max == 65535

\* largest height and width of the small images of the model
MaxHeight == 2
MaxWidth == 3

Pixel_new(red, green, blue) == [red |-> red, green |-> green, blue |-> blue]

Pixel_black == Pixel_new(0, 0, 0)

\* a u16 index cast with "as u8": the low eight bits
u16_as_u8(n) == n % (U8Max + 1)

\* the cast rounds to the nearest channel value
as_u8_nearest(num, den) ==
    IF num <= 0 THEN 0
    ELSE IF (2 * num + den) \div (2 * den) > U8Max THEN U8Max
    ELSE (2 * num + den) \div (2 * den)

\* the f64 num / den cast with "as u8": truncated toward zero and saturated
\* at the ends of the u8 range
as_u8(num, den) ==
    IF num <= 0 THEN 0
    ELSE IF num \div den > U8Max THEN U8Max
    ELSE num \div den

\* f64::sqrt of a component: sqrt(n / ColourScale) = sqrt(ColourScale * n) / ColourScale
sqrt_component(n) ==
    CHOOSE k \in 0..(2 * ColourScale) :
        k * k <= ColourScale * n /\ (k + 1) * (k + 1) > ColourScale * n

\* Vector::map(f64::sqrt)
map_sqrt(self) ==
    Vector_new(sqrt_component(self.x), sqrt_component(self.y), sqrt_component(self.z))

\* the gamma_corrector from_vectors selects
gamma_corrector(gamma_correct, v) == IF gamma_correct THEN map_sqrt(v) ELSE v

\* the last closure of from_vectors: v * 255.0, each component cast to u8
vector_to_pixel(v) ==
    LET w == mul_f64(v, U8Max)
    IN  Pixel_new(as_u8(w.x, ColourScale), as_u8(w.y, ColourScale), as_u8(w.z, ColourScale))

\* the closures of Pixels the model passes to from_pixels, by name:
\*   black: |_c, _r| Pixel::black()
\*   index: |c, r| Pixel::new(c as u8, r as u8, 0)
\*   white: |_c, _r| Pixel::new(255, 255, 255)
PixelGeneratorPool == { "black", "index", "white" }

pixel_generator(colour, c, r) ==
    CASE colour = "black" -> Pixel_black
      [] colour = "index" -> Pixel_new(u16_as_u8(c), u16_as_u8(r), 0)
      [] colour = "white" -> Pixel_new(U8Max, U8Max, U8Max)

\* the closures of Vectors the model passes to from_vectors, by name:
\*   bounds:  |_c, _r| Vector::new(0.0, 0.25, 1.0)
\*   squares: components (c % 5)^2 / 16, (r % 5)^2 / 16 and 0.25
\*   ramp:    components (c % 17) / 16, (r % 17) / 16 and 0.5
\*   over:    |_c, _r| Vector::new(2.0, 0.0, 1.0), outside the unit cube
VectorGeneratorPool == { "bounds", "squares", "ramp", "over" }

vector_generator(vector, c, r) ==
    CASE vector = "bounds" -> Vector_new(0, ColourScale \div 4, ColourScale)
      [] vector = "squares" -> Vector_new((c % 5) * (c % 5), (r % 5) * (r % 5), ColourScale \div 4)
      [] vector = "ramp" -> Vector_new(c % (ColourScale + 1), r % (ColourScale + 1), ColourScale \div 2)
      [] vector = "over" -> Vector_new(2 * ColourScale, 0, ColourScale)

\* a component n / ColourOne of a colour of ray_colour through the gamma
\* corrector and the last closure of from_vectors: f64::sqrt, * 255.0 and the
\* cast "as u8", which truncates and saturates.  The channel is the whole
\* part k of 255 * sqrt(n / ColourOne), the k with
\* k^2 <= 255^2 * n / ColourOne < (k + 1)^2; the product is a whole number
\* only at n = 0 and at n = ColourOne, where the f64 results 0.0 and 255.0
\* are exact, so the rounding of the f64 operations never crosses a whole
\* number.
gamma_as_u8(n) ==
    IF n <= 0 THEN 0
    ELSE IF n >= ColourOne THEN U8Max
    ELSE CHOOSE k \in 0..U8Max :
             /\ k * k * ColourOne <= U8Max * U8Max * n
             /\ (k + 1) * (k + 1) * ColourOne > U8Max * U8Max * n

\* the pixel from_vectors makes of a colour of ray_colour with gamma correction
\* the square root of NaN and its product with 255.0 are NaN, and the cast
\* of NaN "as u8" is 0
gamma_pixel(v) ==
    IF is_nan(v) THEN Pixel_new(0, 0, 0)
    ELSE Pixel_new(gamma_as_u8(v.x), gamma_as_u8(v.y), gamma_as_u8(v.z))

\* Image::from_pixels: the image holds the lazy iterator over the closure
Image_from_pixels(height, width, colour) ==
    [height |-> height, width |-> width,
     pixels |-> [kind |-> "pixels", generator |-> colour, gamma_correct |-> FALSE]]

\* Image::from_vectors
Image_from_vectors(height, width, vector, gamma_correct) ==
    [height |-> height, width |-> width,
     pixels |-> [kind |-> "vectors", generator |-> vector, gamma_correct |-> gamma_correct]]

\* the colours the closure vector_generator of render returns, row by row,
\* with the random values draws and us drawn on each pixel
render_colours(self, world, draws, us) ==
    [i \in 1..(self.image_height * self.image_width) |->
        render_vector_generator(self, world, draws, us,
                                (i - 1) % self.image_width, (i - 1) \div self.image_width)]

\* the image of Camera::render: Image::from_vectors(self.image_height,
\* self.image_width, &vector_generator, true); the closure is kept as the
\* colours it returns for the pixels
Camera_render_image(self, world, draws, us) ==
    [height |-> self.image_height, width |-> self.image_width,
     pixels |-> [kind |-> "render",
                 generator |-> [width |-> self.image_width,
                                colours |-> render_colours(self, world, draws, us)],
                 gamma_correct |-> TRUE]]

\* the item the iterator yields for column c of row r
pixels_item(pixels, c, r) ==
    IF pixels.kind = "pixels" THEN pixel_generator(pixels.generator, c, r)
    ELSE IF pixels.kind = "vectors"
    THEN vector_to_pixel(gamma_corrector(pixels.gamma_correct,
                                         vector_generator(pixels.generator, c, r)))
    ELSE gamma_pixel(pixels.generator.colours[r * pixels.generator.width + c + 1])

\* the inner iterator of a row runs down the columns from the last
row_items_reversed(pixels, width, r) ==
    [i \in 1..width |-> pixels_item(pixels, width - i, r)]

\* the inner iterator of row r: (0..width).map(move |c| colour(c, r))
row_items(pixels, width, r) == [i \in 1..width |-> pixels_item(pixels, i - 1, r)]

\* (lo..hi).flat_map of the rows: the rows one after another
RECURSIVE flat_map(_, _, _, _)
flat_map(pixels, width, lo, hi) ==
    IF hi <= lo THEN << >>
    ELSE IF hi = lo + 1 THEN row_items(pixels, width, lo)
    ELSE LET mid == (lo + hi) \div 2
         IN  flat_map(pixels, width, lo, mid) \o flat_map(pixels, width, mid, hi)

\* Image::collect
Image_collect(self) == flat_map(self.pixels, self.width, 0, self.height)

\* the square roots of gamma correction are exact on every vector of the image
ExactGamma(self) ==
    self.pixels.kind = "vectors" /\ self.pixels.gamma_correct =>
        \A v \in { vector_generator(self.pixels.generator, p[2], p[1]) :
                        p \in (0..(self.height - 1)) \X (0..(self.width - 1)) } :
            mul(map_sqrt(v), map_sqrt(v)) = mul_f64(v, ColourScale)

\* the heights and widths of the model
SizePool == (0..MaxHeight) \X (0..MaxWidth)

\* a row and a column of the largest size, as in the test very_large_image
LargeSizePool == { << 1, U16Max >>, << U16Max, 1 >> }

VARIABLES
    ig_image,      \* the Image built last, or None
    ig_collected   \* what collect returned for it, or None

ig_vars == << ig_image, ig_collected >>

ig_Init ==
    /\ ig_image = None
    /\ ig_collected = None

\* the model follows one image, from its constructor to collect
FromPixelsCall(height, width, colour) ==
    /\ is_none(ig_image)
    /\ ig_image' = Some(Image_from_pixels(height, width, colour))
    /\ ig_collected' = None

FromVectorsCall(height, width, vector, gamma_correct) ==
    /\ is_none(ig_image)
    /\ ExactGamma(Image_from_vectors(height, width, vector, gamma_correct))
    /\ ig_image' = Some(Image_from_vectors(height, width, vector, gamma_correct))
    /\ ig_collected' = None

CollectCall ==
    /\ is_some(ig_image)
    /\ is_none(ig_collected)
    /\ ig_collected' = Some(Image_collect(unwrap(ig_image)))
    /\ UNCHANGED ig_image

\* ----------------------------------------------------------- PPMFormatter
\* Bytes are numbers 0..255; text is the sequence of its ASCII codes.
Newline == << 10 >>
Space == << 32 >>

\* ToString::to_string of an unsigned number: its decimal digits
RECURSIVE to_string(_)
to_string(n) ==
    IF n < 10 THEN << 48 + n >> ELSE to_string(n \div 10) \o << 48 + (n % 10) >>

PPMFormatter_new(ascii_mode) == [ascii_mode |-> ascii_mode]

\* PPMFormatter::header: "P3" or "P6", then "\n{width} {height}\n255\n"
header(self, image) ==
    (IF self.ascii_mode THEN << 80, 51 >> ELSE << 80, 54 >>)
        \o Newline \o to_string(image.width) \o Space \o to_string(image.height)
        \o Newline \o to_string(U8Max) \o Newline

\* PPMFormatter::len
PPMFormatter_len(self, image) ==
    LET pixel_bytes == image.width * image.height * 3
    IN  Len(header(self, image)) + (IF self.ascii_mode THEN pixel_bytes * 4 ELSE pixel_bytes)

\* the strings joined with a separator between them
RECURSIVE join(_, _)
join(strings, separator) ==
    IF Len(strings) = 0 THEN << >>
    ELSE IF Len(strings) = 1 THEN strings[1]
    ELSE strings[1] \o separator \o join(Tail(strings), separator)

\* the bytes of the ASCII mode end with the blue value
pixel_bytes_no_newline(ascii_mode, pixel) ==
    IF ascii_mode
    THEN join(<< to_string(pixel.red), to_string(pixel.green), to_string(pixel.blue) >>, Space)
    ELSE << pixel.red, pixel.green, pixel.blue >>

\* the bytes PPMIterator::next makes of a pixel: the three channels, or in
\* ASCII mode their decimal strings and "\n", joined with " "
pixel_bytes(ascii_mode, pixel) ==
    IF ascii_mode
    THEN join(<< to_string(pixel.red), to_string(pixel.green), to_string(pixel.blue),
                 Newline >>, Space)
    ELSE << pixel.red, pixel.green, pixel.blue >>

\* PPMFormatter::get_bytes: the header chained with a PPMIterator at ix = 0;
\* the iterator reads the pixels of the image by index
get_bytes(self, image) ==
    [header |-> Some(header(self, image)), ascii_mode |-> self.ascii_mode,
     height |-> image.height, width |-> image.width,
     pixels |-> Image_collect(image), ix |-> 0]

\* Iterator::next of the chain: << item, iterator after the call >>; the
\* header first, then PPMIterator::next, None once ix = height * width
chain_next(iter) ==
    IF is_some(iter.header) THEN << iter.header, [iter EXCEPT !.header = None] >>
    ELSE IF iter.ix = iter.height * iter.width THEN << None, iter >>
    ELSE << Some(pixel_bytes(iter.ascii_mode, iter.pixels[iter.ix + 1])),
            [iter EXCEPT !.ix = iter.ix + 1] >>

\* the period of the progress messages of write_to_file, in bytes
ProgressPeriod == 1000

\* the images the model writes: the small ones, and a row of 329 black
\* pixels, whose binary form has 13 + 3 * 329 = 1000 bytes
WriteImagePool ==
    { Image_from_pixels(size[1], size[2], colour) :
        size \in SizePool, colour \in PixelGeneratorPool }

ProgressImage == Image_from_pixels(1, 329, "black")

VARIABLES
    wr_pc,       \* "idle", "loop" (inside the for loop) or "done"
    wr_iter,     \* the iterator get_bytes returned, or None
    wr_size,     \* formatter.len(&self)
    wr_count,    \* the local count
    wr_file,     \* the bytes the file holds
    wr_stdout,   \* the number of progress messages written
    wr_yielded,  \* the chunks the iterator has yielded, in order
    wr_result    \* None, or the io::Result returned: "Ok", "Err file", "Err stdout"

wr_vars == << wr_pc, wr_iter, wr_size, wr_count, wr_file, wr_stdout, wr_yielded, wr_result >>

wr_Init ==
    /\ wr_pc = "idle"
    /\ wr_iter = None
    /\ wr_size = 0
    /\ wr_count = 0
    /\ wr_file = << >>
    /\ wr_stdout = 0
    /\ wr_yielded = << >>
    /\ wr_result = None

\* write_to_file up to the loop: size, count = 0 and the iterator; the file
\* is the empty temporary file of the caller
WriteToFileCall(image, formatter) ==
    /\ wr_pc = "idle"
    /\ wr_pc' = "loop"
    /\ wr_size' = PPMFormatter_len(formatter, image)
    /\ wr_count' = 0
    /\ wr_iter' = Some(get_bytes(formatter, image))
    /\ wr_file' = << >>
    /\ wr_stdout' = 0
    /\ wr_yielded' = << >>
    /\ wr_result' = None

\* the loop goes on after a failed write
WriteChunk_unchecked(written, stdout_ok) ==
    /\ wr_pc = "loop"
    /\ LET next == chain_next(unwrap(wr_iter))
       IN  /\ is_some(next[1])
           /\ written \in 0..Len(unwrap(next[1]))
           /\ wr_iter' = Some(next[2])
           /\ wr_yielded' = Append(wr_yielded, unwrap(next[1]))
           /\ wr_file' = wr_file \o SubSeq(unwrap(next[1]), 1, written)
           /\ wr_count' = wr_count + Len(unwrap(next[1]))
           /\ stdout_ok
           /\ wr_stdout' = IF (wr_count + Len(unwrap(next[1]))) % ProgressPeriod = 0
                           THEN wr_stdout + 1 ELSE wr_stdout
           /\ UNCHANGED << wr_pc, wr_result, wr_size >>

\* one turn of the loop on an item of the iterator. f.write_all writes the
\* whole chunk or fails after "written" bytes of it, fewer than the chunk
\* has, and `?` returns the error; after a whole chunk count grows, and at a
\* multiple of the period the progress message is written to stdout, whose
\* failure (~stdout_ok) `?` returns as well.
WriteChunk(written, stdout_ok) ==
    /\ wr_pc = "loop"
    /\ LET next == chain_next(unwrap(wr_iter))
       IN  /\ is_some(next[1])
           /\ written \in 0..Len(unwrap(next[1]))
           /\ wr_iter' = Some(next[2])
           /\ wr_yielded' = Append(wr_yielded, unwrap(next[1]))
           /\ wr_file' = wr_file \o SubSeq(unwrap(next[1]), 1, written)
           /\ IF written < Len(unwrap(next[1]))
              THEN /\ stdout_ok
                   /\ wr_pc' = "done"
                   /\ wr_result' = Some("Err file")
                   /\ UNCHANGED << wr_count, wr_stdout >>
              ELSE /\ wr_count' = wr_count + Len(unwrap(next[1]))
                   /\ IF (wr_count + Len(unwrap(next[1]))) % ProgressPeriod # 0
                      THEN /\ stdout_ok
                           /\ UNCHANGED << wr_pc, wr_result, wr_stdout >>
                      ELSE IF stdout_ok
                      THEN /\ wr_stdout' = wr_stdout + 1
                           /\ UNCHANGED << wr_pc, wr_result >>
                      ELSE /\ wr_pc' = "done"
                           /\ wr_result' = Some("Err stdout")
                           /\ UNCHANGED wr_stdout
           /\ UNCHANGED wr_size

\* the iterator is exhausted: the loop ends and write_to_file returns Ok(())
WriteReturn ==
    /\ wr_pc = "loop"
    /\ is_none(chain_next(unwrap(wr_iter))[1])
    /\ wr_pc' = "done"
    /\ wr_result' = Some("Ok")
    /\ UNCHANGED << wr_iter, wr_size, wr_count, wr_file, wr_stdout, wr_yielded >>

\* ---------------------------------------------------------- Camera::render
\* the image of render is built; File::create fails (~create_ok), which `?`
\* returns, or write_to_file is entered with PPMFormatter::new(true)
RenderFile(image, create_ok) ==
    /\ ig_image' = Some(image)
    /\ ig_collected' = None
    /\ IF create_ok
       THEN WriteToFileCall(image, PPMFormatter_new(TRUE))
       ELSE UNCHANGED wr_vars

\* Camera::render on the camera, its first call: the image of the closure,
\* PPMFormatter::new(true), File::create, whose failure (~create_ok) `?`
\* returns, and write_to_file up to its loop.  The loop is WriteChunk and
\* WriteReturn, and what write_to_file returns render returns.  draws and us
\* are the random values the closure draws on each pixel.
RenderCall(world, draws, us, create_ok) ==
    /\ is_some(cm_camera)
    /\ is_none(cm_built) /\ is_none(cm_pixel) /\ is_none(cm_render)
    /\ ExactRender(unwrap(cm_camera), world, draws, us)
    /\ cm_render' = Some([world |-> world, draws |-> draws, us |-> us,
                          created |-> create_ok])
    /\ RenderFile(Camera_render_image(unwrap(cm_camera), world, draws, us), create_ok)
    /\ UNCHANGED << cm_camera, cm_built, cm_pixel >>

\* the io::Result of render, once it has returned
render_result ==
    IF is_none(cm_render) THEN None
    ELSE IF ~unwrap(cm_render).created THEN Some("Err create")
    ELSE wr_result

\* ------------------------------------------------------- Pixel into u32
\* (value as u32) << shift: the values are bytes and the shifts at most 16,
\* so no bit leaves the 32
shl_u32(value, shift) == value * 2^shift

\* every channel is shifted as the blue one: the bytes are added up
u32_from_Pixel_unshifted(value) ==
    shl_u32(value.red, 0) + shl_u32(value.green, 0) + shl_u32(value.blue, 0)

\* impl From<Pixel> for u32: the sum of red << 16, green << 8 and blue << 0
u32_from_Pixel(value) ==
    shl_u32(value.red, 16) + shl_u32(value.green, 8) + shl_u32(value.blue, 0)

\* the channel values of the model, and the crimson of the example
ChannelPool == { 0, 1, U8Max }

PixelPool ==
    { Pixel_new(r, g, b) : r \in ChannelPool, g \in ChannelPool, b \in ChannelPool }
        \cup { Pixel_new(220, 20, 60) }

VARIABLES
    px_pixel,     \* the Pixel converted last, or None
    px_u32,       \* its u32
    px_earlier,   \* the Pixel converted before it, or None
    px_earlier_u32

px_vars == << px_pixel, px_u32, px_earlier, px_earlier_u32 >>

px_Init ==
    /\ px_pixel = None
    /\ px_u32 = 0
    /\ px_earlier = None
    /\ px_earlier_u32 = 0

\* let value: u32 = pixel.into()
PixelIntoCall(pixel) ==
    /\ px_pixel' = Some(pixel)
    /\ px_u32' = u32_from_Pixel(pixel)
    /\ px_earlier' = px_pixel
    /\ px_earlier_u32' = px_u32

\* ------------------------------------------- Vector compared with an f64
\* An f64 of this section is a number or NaN.
f64_of(value) == [nan |-> FALSE, value |-> value]

f64_nan == [nan |-> TRUE, value |-> 0]

\* the components [self.x, self.y, self.z]
components(self) ==
    IF is_nan(self) THEN << f64_nan, f64_nan, f64_nan >>
    ELSE << f64_of(self.x), f64_of(self.y), f64_of(self.z) >>

\* Vector::new(other, other, other)
Vector_splat(other) ==
    IF other.nan THEN Vector_nan ELSE Vector_new(other.value, other.value, other.value)

\* the comparisons of f64: each is false when an operand is NaN
f64_eq(s, o) == ~s.nan /\ ~o.nan /\ s.value = o.value

f64_le(s, o) == ~s.nan /\ ~o.nan /\ s.value <= o.value

f64_ge(s, o) == ~s.nan /\ ~o.nan /\ s.value >= o.value

\* f64::partial_cmp: None when an operand is NaN
f64_partial_cmp(s, o) ==
    IF s.nan \/ o.nan THEN None
    ELSE IF s.value < o.value THEN Some("Less")
    ELSE IF s.value = o.value THEN Some("Equal")
    ELSE Some("Greater")

\* impl PartialEq<f64> for Vector
Vector_eq_f64(self, other) ==
    /\ f64_eq(components(self)[1], other)
    /\ f64_eq(components(self)[2], other)
    /\ f64_eq(components(self)[3], other)

\* impl PartialEq<Vector> for f64
f64_eq_Vector(self, other) == Vector_eq_f64(other, self)

\* the closure of reduce in partial_cmp
reduce_closure(a, e) == IF a = e THEN a ELSE None

\* the ordering of the x components decides
partial_cmp_first(self, other) ==
    f64_partial_cmp(components(self)[1], components(other)[1])

\* PartialOrd::partial_cmp for Vector: the orderings of the three pairs of
\* components, reduced to the common one or None
partial_cmp(self, other) ==
    reduce_closure(
        reduce_closure(f64_partial_cmp(components(self)[1], components(other)[1]),
                       f64_partial_cmp(components(self)[2], components(other)[2])),
        f64_partial_cmp(components(self)[3], components(other)[3]))

\* PartialOrd::le for Vector
le(self, other) ==
    /\ f64_le(components(self)[1], components(other)[1])
    /\ f64_le(components(self)[2], components(other)[2])
    /\ f64_le(components(self)[3], components(other)[3])

\* PartialOrd::ge for Vector
ge(self, other) ==
    /\ f64_ge(components(self)[1], components(other)[1])
    /\ f64_ge(components(self)[2], components(other)[2])
    /\ f64_ge(components(self)[3], components(other)[3])

\* impl PartialOrd<f64> for Vector
partial_cmp_f64(self, other) == partial_cmp(self, Vector_splat(other))

le_f64(self, other) == le(self, Vector_splat(other))

ge_f64(self, other) == ge(self, Vector_splat(other))

\* impl PartialOrd<Vector> for f64
f64_partial_cmp_Vector(self, other) == partial_cmp(Vector_splat(self), other)

f64_le_Vector(self, other) == ge_f64(other, self)

f64_ge_Vector(self, other) == le_f64(other, self)

\* the provided methods lt and gt of PartialOrd, from partial_cmp
lt(ordering) == ordering = Some("Less")

gt(ordering) == ordering = Some("Greater")

\* the vectors and scalars compared in the model
CompareVectorPool ==
    { Vector_new(x, y, z) : x \in -1..1, y \in -1..1, z \in -1..1 } \cup { Vector_nan }

CompareScalarPool == { f64_of(s) : s \in -1..1 } \cup { f64_nan }

VARIABLES
    cp_vector,   \* the Vector compared last, or None
    cp_scalar,   \* the f64 it was compared with
    cp_result    \* the outcome of each comparison, by its expression

cp_vars == << cp_vector, cp_scalar, cp_result >>

cp_Init ==
    /\ cp_vector = None
    /\ cp_scalar = f64_of(0)
    /\ cp_result = None

\* every comparison of v with s, from either side
CompareCall(v, s) ==
    /\ cp_vector' = Some(v)
    /\ cp_scalar' = s
    /\ cp_result' = Some([v_eq_s |-> Vector_eq_f64(v, s),
                          s_eq_v |-> f64_eq_Vector(s, v),
                          v_le_s |-> le_f64(v, s),
                          v_ge_s |-> ge_f64(v, s),
                          v_lt_s |-> lt(partial_cmp_f64(v, s)),
                          v_gt_s |-> gt(partial_cmp_f64(v, s)),
                          s_le_v |-> f64_le_Vector(s, v),
                          s_ge_v |-> f64_ge_Vector(s, v),
                          s_lt_v |-> lt(f64_partial_cmp_Vector(s, v)),
                          s_gt_v |-> gt(f64_partial_cmp_Vector(s, v))])

\* ----------------------------------------------------------- specifications
im_vars == << ig_vars, wr_vars, px_vars, cp_vars >>

im_Init == ig_Init /\ wr_Init /\ px_Init /\ cp_Init

vars == << ss_vars, sp_vars, na_vars, rc_vars, cm_vars, sc_vars, im_vars >>

Init == ss_Init /\ sp_Init /\ na_Init /\ rc_Init /\ cm_Init /\ sc_Init /\ im_Init

\* ---- Spec: the SurfaceSet and its intersection scan; the rest stands still

ss_only == UNCHANGED << sp_vars, na_vars, rc_vars, cm_vars, sc_vars, im_vars >>

Add == (\E s \in SurfacePool : SurfaceSet_add(s)) /\ ss_only

Clear == SurfaceSet_clear /\ ss_only

Query == (\E r \in RayPool, i \in IntervalPool : IntersectionCall(r, i)) /\ ss_only

Scan == IntersectionStep /\ ss_only

Return == IntersectionReturn /\ ss_only

Drop == IntersectionDrop /\ ss_only

Next == Add \/ Clear \/ Query \/ Scan \/ Return \/ Drop

Spec == Init /\ [][Next]_vars

\* ---- SpecSphere: Sphere::new followed by Sphere::intersection

sp_only == UNCHANGED << ss_vars, na_vars, rc_vars, cm_vars, sc_vars, im_vars >>

NewSphere ==
    (\E c \in CenterPool, r \in RadiusPool : SphereNewCall(c, r)) /\ sp_only

QuerySphere ==
    (\E r \in SphereRayPool, i \in IntervalPool : SphereIntersectionCall(r, i)) /\ sp_only

NextSphere == NewSphere \/ QuerySphere

SpecSphere == Init /\ [][NextSphere]_vars

\* ---- SpecNormal: Shape::normal_against_ray

na_only == UNCHANGED << ss_vars, sp_vars, rc_vars, cm_vars, sc_vars, im_vars >>

NextNormal ==
    (\E sh \in SpherePool, ax \in AxisPool, d \in DirectionPool :
        NormalAgainstRayCall(sh, ax, d)) /\ na_only

SpecNormal == Init /\ [][NextNormal]_vars

\* ---- SpecColour: ray_colour

rc_only == UNCHANGED << ss_vars, sp_vars, na_vars, cm_vars, sc_vars, im_vars >>

Trace ==
    (\E w \in ScenePool, r \in TracedRayPool, b \in 0..MaxBounces :
        RayColourCall(w, r, b)) /\ rc_only

Body == (\E u \in UnitPool : RayColourBody(u)) /\ rc_only

Multiply == RayColourMultiply /\ rc_only

Finish == RayColourReturn /\ rc_only

NextColour == Trace \/ Body \/ Multiply \/ Finish

SpecColour == Init /\ [][NextColour]_vars

\* ---- SpecCamera: Camera::new, build_ray, the closure of render and render

\* the numbers of bytes write_all can have written of the next chunk
WrittenPool ==
    IF wr_pc = "loop" /\ is_some(chain_next(unwrap(wr_iter))[1])
    THEN 0..Len(unwrap(chain_next(unwrap(wr_iter))[1]))
    ELSE { }

cm_only == UNCHANGED << ss_vars, sp_vars, na_vars, rc_vars, sc_vars, im_vars >>

NewCamera ==
    (\E c \in CameraPool : CameraNewCall(c[1], c[2], c[3], c[4], c[5], c[6], c[7])) /\ cm_only

BuildRay ==
    (\E x \in 0..1, y \in 0..1, sp \in { Interval_empty, diffusion },
        rx \in RandPool, ry \in RandPool : BuildRayCall(x, y, sp, rx, ry)) /\ cm_only

RenderPixel ==
    (\E w \in CameraScenePool, x \in 0..1, y \in 0..1, d \in DrawsPool, us \in UsPool :
        RenderPixelCall(w, x, y, d, us)) /\ cm_only

\* the random values of a whole render
RenderDrawsPool ==
    { << [x |-> 0, y |-> 0] >>, << [x |-> 0, y |-> SubPixel \div 2] >>,
      << [x |-> SubPixel \div 2, y |-> SubPixel \div 2] >> }

Render ==
    (\E w \in CameraScenePool, d \in RenderDrawsPool, us \in UsPool, create_ok \in BOOLEAN :
        RenderCall(w, d, us, create_ok))
    /\ UNCHANGED << ss_vars, sp_vars, na_vars, rc_vars, sc_vars, px_vars, cp_vars >>

\* write_all writes the whole chunk, or fails before its first byte or
\* before its last
RenderWrite ==
    (\E written \in WrittenPool, stdout_ok \in BOOLEAN :
        /\ is_some(cm_render)
        /\ written \in { 0, Len(unwrap(chain_next(unwrap(wr_iter))[1])) - 1,
                         Len(unwrap(chain_next(unwrap(wr_iter))[1])) }
        /\ WriteChunk(written, stdout_ok))
    /\ UNCHANGED << ss_vars, sp_vars, na_vars, rc_vars, cm_vars, sc_vars, ig_vars, px_vars, cp_vars >>

RenderDone ==
    (is_some(cm_render) /\ WriteReturn)
    /\ UNCHANGED << ss_vars, sp_vars, na_vars, rc_vars, cm_vars, sc_vars, ig_vars, px_vars, cp_vars >>

NextCamera == NewCamera \/ BuildRay \/ RenderPixel \/ Render \/ RenderWrite \/ RenderDone

SpecCamera == Init /\ [][NextCamera]_vars

sc_only == UNCHANGED << ss_vars, sp_vars, na_vars, rc_vars, cm_vars, im_vars >>

\* the time ray_colour finds for the ray on the shape
ScatterTime(shape, ray) ==
    Sphere_intersection(shape, ray, Interval_new(ShadowAcneMin, F64Max, "Open"))

\* a scatter call on a surface at the point where a ray meets it first
Scatter ==
    (\E sf \in ScatterSurfacePool, ray \in ScatterRayPool, u \in AxisPool :
        /\ sc_pc = "idle"
        /\ Exact(sf.shape, ray)
        /\ is_some(ScatterTime(sf.shape, ray))
        /\ ScatterCall(sf, at(ray, unwrap(ScatterTime(sf.shape, ray))), ray, u)) /\ sc_only

ReflectLambertian == LambertianReflect /\ sc_only

ReflectMetal == MetalReflect /\ sc_only

ProbeDielectric == DielectricProbe /\ sc_only

ReflectDielectric == DielectricReflect /\ sc_only

NextScatter ==
    Scatter \/ ReflectLambertian \/ ReflectMetal \/ ProbeDielectric \/ ReflectDielectric

SpecScatter == Init /\ [][NextScatter]_vars


\* ---- SpecImage: the constructors of Image and collect

ig_only == UNCHANGED << ss_vars, sp_vars, na_vars, rc_vars, cm_vars, sc_vars, wr_vars, px_vars, cp_vars >>

FromPixels ==
    (\E size \in SizePool \cup LargeSizePool, colour \in PixelGeneratorPool :
        /\ size \in LargeSizePool => colour = "index"
        /\ FromPixelsCall(size[1], size[2], colour)) /\ ig_only

FromVectors ==
    (\E size \in SizePool, vector \in VectorGeneratorPool, gamma_correct \in BOOLEAN :
        FromVectorsCall(size[1], size[2], vector, gamma_correct)) /\ ig_only

Collect == CollectCall /\ ig_only

NextImage == FromPixels \/ FromVectors \/ Collect

SpecImage == Init /\ [][NextImage]_vars


\* ---- SpecWrite: Image::write_to_file with a PPMFormatter

wr_only == UNCHANGED << ss_vars, sp_vars, na_vars, rc_vars, cm_vars, sc_vars, ig_vars, px_vars, cp_vars >>

WriteToFile ==
    (\E image \in WriteImagePool \cup { ProgressImage }, ascii_mode \in BOOLEAN :
        /\ wr_pc = "idle"
        /\ image = ProgressImage => ~ascii_mode
        /\ WriteToFileCall(image, PPMFormatter_new(ascii_mode))) /\ wr_only

WriteStep ==
    (\E written \in WrittenPool, stdout_ok \in BOOLEAN :
        /\ wr_pc = "loop"
        /\ WriteChunk(written, stdout_ok)) /\ wr_only

WriteDone == WriteReturn /\ wr_only

NextWrite == WriteToFile \/ WriteStep \/ WriteDone

SpecWrite == Init /\ [][NextWrite]_vars


\* ---- SpecPixel: the conversion of a Pixel into u32

px_only == UNCHANGED << ss_vars, sp_vars, na_vars, rc_vars, cm_vars, sc_vars, ig_vars, wr_vars, cp_vars >>

PixelInto == (\E pixel \in PixelPool : PixelIntoCall(pixel)) /\ px_only

NextPixel == PixelInto

SpecPixel == Init /\ [][NextPixel]_vars

\* ---- SpecCompare: the comparisons of a Vector with an f64

cp_only == UNCHANGED << ss_vars, sp_vars, na_vars, rc_vars, cm_vars, sc_vars, ig_vars, wr_vars, px_vars >>

Compare ==
    (\E v \in CompareVectorPool, s \in CompareScalarPool : CompareCall(v, s)) /\ cp_only

NextCompare == Compare

SpecCompare == Init /\ [][NextCompare]_vars

\* ------------------------------------------------ what a hit is, by geometry
TimeRange == (-MaxTime)..MaxTime

\* the point of the ray at time t lies on the sphere
OnSphere(sphere, ray, t) ==
    l2_norm_squared(sub(at(ray, t), sphere.center)) = sphere.radius * sphere.radius

\* the times at which the ray meets the sphere
HitTimes(sphere, ray) == { t \in TimeRange : OnSphere(sphere, ray, t) }

\* the hits inside an interval under its boundary convention
ValidHits(sphere, ray, interval) ==
    { t \in HitTimes(sphere, ray) : contains(interval, t) }

SetMin(S) == CHOOSE m \in S : \A x \in S : m <= x
SetMax(S) == CHOOSE m \in S : \A x \in S : m >= x

\* the valid hits of the i-th member for the call in progress
MemberHits(i) == ValidHits(ss_surfaces[i].shape, ss_ray, ss_interval)

Members == 1..Len(ss_surfaces)

AllMemberHits == UNION { MemberHits(i) : i \in Members }

\* the members whose nearest valid hit is t
MembersAt(t) == { i \in Members : MemberHits(i) # {} /\ SetMin(MemberHits(i)) = t }

Range(f) == { f[i] : i \in DOMAIN f }

\* --------------------------------------------------------------- claims
\* C1: when SurfaceSet::intersection returns Some, the reported t is a valid
\* hit of some member and no member has a valid hit (inside the initial
\* interval) strictly smaller than t.
C1_ReportsSmallestT ==
    (ss_pc = "done" /\ is_some(ss_out)) =>
        /\ unwrap(ss_out).t \in AllMemberHits
        /\ \A x \in AllMemberHits : unwrap(ss_out).t <= x

\* a later member replaced an earlier, farther hit
C1_Witness ==
    /\ ss_pc = "done" /\ is_some(ss_out)
    /\ Len(ss_surfaces) >= 2
    /\ MemberHits(1) # {}
    /\ unwrap(ss_out).t < SetMin(MemberHits(1))

\* the set with the members at positions k and k + 1 exchanged
Exchange(seq, k) ==
    [i \in 1..Len(seq) |-> IF i = k THEN seq[k + 1] ELSE IF i = k + 1 THEN seq[k] ELSE seq[i]]

ExchangeIndex(k, i) == IF i = k THEN k + 1 ELSE IF i = k + 1 THEN k ELSE i

\* C2: the tie list holds exactly the members whose nearest valid hit is the
\* reported t, each once; with pairwise distinct nearest hits it is a
\* singleton; exchanging two neighbours of the insertion order (hence, every
\* set being reachable, any permutation) changes neither t nor the members
\* of the tie list.
C2_TieSetExact ==
    (ss_pc = "done" /\ is_some(ss_out)) =>
        LET res == unwrap(ss_out)
        IN  /\ Range(res.surfaces) = MembersAt(res.t)
            /\ Len(res.surfaces) = Cardinality(Range(res.surfaces))
            /\ (\A i, j \in Members :
                    (i # j /\ MemberHits(i) # {} /\ MemberHits(j) # {})
                        => SetMin(MemberHits(i)) # SetMin(MemberHits(j)))
               => Len(res.surfaces) = 1
            /\ \A k \in 1..(Len(ss_surfaces) - 1) :
                   LET other == SurfaceSet_intersection(Exchange(ss_surfaces, k),
                                                        ss_ray, ss_interval)
                   IN  /\ is_some(other)
                       /\ unwrap(other).t = res.t
                       /\ { ExchangeIndex(k, j) : j \in Range(unwrap(other).surfaces) }
                              = Range(res.surfaces)

\* two different spheres tie, with a member that hits later between them
C2_Witness ==
    /\ ss_pc = "done" /\ is_some(ss_out)
    /\ Len(ss_surfaces) = 3
    /\ unwrap(ss_out).surfaces = << 1, 3 >>
    /\ ss_surfaces[1] # ss_surfaces[3]
    /\ MemberHits(2) # {}
    /\ SetMin(MemberHits(2)) > unwrap(ss_out).t

\* C3: intersection returns None exactly when no member has a valid hit, and
\* always on a set that is new or was just cleared.
C3_NoneIffNoHit ==
    ss_pc = "done" =>
        /\ is_none(ss_out) <=> (\A i \in Members : MemberHits(i) = {})
        /\ ss_added = 0 => is_none(ss_out)

\* a query on a set that held surfaces before it was cleared
C3_Witness ==
    /\ ss_pc = "done" /\ is_none(ss_out)
    /\ ss_dropped >= 2 /\ ss_added = 0
    /\ ss_interval.min = 0 /\ ss_interval.max = MaxTime

\* C4: the tie list is in insertion order, so its first entry, which is the
\* surface ray_colour scatters on, is the earliest-added member among those
\* hitting at exactly the reported t.
C4_TieListInsertionOrder ==
    (ss_pc = "done" /\ is_some(ss_out)) =>
        LET res == unwrap(ss_out)
        IN  /\ \A a, b \in 1..Len(res.surfaces) : a < b => res.surfaces[a] < res.surfaces[b]
            /\ hit_surface(ss_surfaces, res) = ss_surfaces[SetMin(MembersAt(res.t))]

\* a tie between two different spheres
C4_Witness ==
    /\ ss_pc = "done" /\ is_some(ss_out)
    /\ Len(unwrap(ss_out).surfaces) >= 2
    /\ ss_surfaces[unwrap(ss_out).surfaces[1]] # ss_surfaces[unwrap(ss_out).surfaces[2]]

LeftOpen(bounds) == bounds \in {"Open", "LeftOpenRightClosed"}
RightClosed(bounds) == bounds \in {"Closed", "LeftOpenRightClosed"}

\* C5: before the first hit every probe uses the caller's interval; after a
\* hit every probe uses the caller's lower bound and lower-bound inclusion
\* and the running minimum as a closed upper bound; the reported t lies
\* inside the caller's interval under the caller's convention.
C5_ProbeWindows ==
    /\ (ss_pc = "scan" /\ is_none(ss_out)) => ss_window = ss_interval
    /\ (ss_pc = "scan" /\ is_some(ss_out)) =>
           /\ ss_window.min = ss_interval.min
           /\ LeftOpen(ss_window.bounds) = LeftOpen(ss_interval.bounds)
           /\ ss_window.max = unwrap(ss_out).t
           /\ RightClosed(ss_window.bounds)
    /\ (ss_pc = "done" /\ is_some(ss_out)) => contains(ss_interval, unwrap(ss_out).t)

\* a probe after a hit, for an open interval, with a member whose hit lies
\* exactly on the open lower bound
C5_Witness ==
    /\ ss_pc = "scan" /\ is_some(ss_out)
    /\ ss_idx <= Len(ss_surfaces)
    /\ ss_interval.bounds = "Open"
    /\ ss_window.bounds = "LeftOpenRightClosed"
    /\ \E i \in Members : ss_interval.min \in HitTimes(ss_surfaces[i].shape, ss_ray)

\* the discriminant h^2 - a*c of the sphere and the ray
Discriminant(sphere, ray) ==
    LET oc == sub(sphere.center, ray.origin)
        a == dot(ray.direction, ray.direction)
        h == dot(ray.direction, oc)
        c == dot(oc, oc) - sphere.radius * sphere.radius
    IN  h * h - a * c

sp_Hits == HitTimes(unwrap(sp_sphere), sp_ray)
sp_ValidHits == ValidHits(unwrap(sp_sphere), sp_ray, sp_interval)

\* C6: when a root lies within the interval under its boundary convention,
\* Sphere::intersection returns the smallest such root: the nearer root when
\* it is inside, otherwise the farther one.
C6_SmallestRootInInterval ==
    (sp_pc = "done" /\ sp_ValidHits # {}) =>
        /\ sp_result = Some(SetMin(sp_ValidHits))
        /\ sp_result = IF contains(sp_interval, SetMin(sp_Hits))
                       THEN Some(SetMin(sp_Hits))
                       ELSE Some(SetMax(sp_Hits))

\* the nearer root lies exactly on the open lower end, the farther is returned
C6_Witness ==
    /\ sp_pc = "done"
    /\ Cardinality(sp_Hits) = 2
    /\ LeftOpen(sp_interval.bounds)
    /\ SetMin(sp_Hits) = sp_interval.min
    /\ sp_result = Some(SetMax(sp_Hits))

\* C7: Sphere::intersection returns None exactly when the discriminant is
\* negative or no root lies within the interval; a tangent ray whose single
\* root is inside the interval gets that root.
C7_NoneIffNoRoot ==
    sp_pc = "done" =>
        /\ is_none(sp_result) <=>
               (Discriminant(unwrap(sp_sphere), sp_ray) < 0 \/ sp_ValidHits = {})
        /\ (Discriminant(unwrap(sp_sphere), sp_ray) = 0 /\ sp_ValidHits # {})
               => (sp_ValidHits = sp_Hits /\ sp_result = Some(SetMin(sp_Hits)))

\* a tangent ray that is reported
C7_Witness ==
    /\ sp_pc = "done"
    /\ Discriminant(unwrap(sp_sphere), sp_ray) = 0
    /\ is_some(sp_result)

\* C8: Sphere::new panics for every radius <= 0 and constructs the sphere
\* for every radius > 0, so every Sphere has radius > 0.
C8_RadiusPositive ==
    /\ sp_pc = "panicked" <=> (sp_pc # "start" /\ sp_radius <= 0)
    /\ sp_pc = "panicked" => is_none(sp_sphere)
    /\ sp_pc \in {"ready", "done"} =>
           /\ sp_sphere = Some([center |-> sp_center, radius |-> sp_radius])
           /\ sp_radius > 0
    /\ is_some(sp_sphere) => unwrap(sp_sphere).radius > 0

\* Sphere::new was called with radius 0
C8_Witness == sp_pc = "panicked" /\ sp_radius = 0

\* C9: normal_against_ray returns the outward normal N when D.N < 0 and -N
\* when D.N > 0; in both cases the result has a negative dot product with D.
C9_NormalAgainstRay ==
    na_pc = "done" =>
        LET N == na_axis
            D == na_ray.direction
        IN  /\ dot(D, N) < 0 => na_result = N
            /\ dot(D, N) > 0 => na_result = mul_f64(N, -1)
            /\ dot(D, N) # 0 => dot(na_result, D) < 0

\* a ray leaving the sphere: the normal is flipped
C9_Witness ==
    /\ na_pc = "done"
    /\ dot(na_ray.direction, na_axis) > 0
    /\ na_result = mul_f64(na_axis, -1)
    /\ na_shape.radius > 1

\* C10: ray_colour called with bounce budget 0 returns the zero colour for
\* every ray and every scene, without a scene query or a scatter call.
C10_ZeroBudget ==
    (rc_pc \in {"return", "done"} /\ rc_arg.max_ray_bounces = 0) =>
        /\ rc_value = Vector_zero
        /\ rc_queries = 0
        /\ rc_scatters = 0

\* a call with budget 0 on a scene the ray would hit, and one it would miss
C10_Witness ==
    /\ rc_pc = "done"
    /\ rc_arg.max_ray_bounces = 0
    /\ is_none(SurfaceSet_intersection(rc_world, rc_arg.ray,
                                       Interval_new(ShadowAcneMin, F64Max, "Open")))
    /\ background(rc_arg.ray) # Vector_zero

\* ------------------------------------------ the path of a ray_colour call

\* the window ray_colour queries the scene with
TraceWindow == Interval_new(ShadowAcneMin, F64Max, "Open")

\* the times at which a ray meets any surface of the scene, by geometry
rc_Hits(ray) ==
    IF Directed(ray)
    THEN UNION { ValidHits(rc_world[i].shape, ray, TraceWindow) : i \in 1..Len(rc_world) }
    ELSE { }

\* the earliest-added surface the ray meets first
rc_First(ray) ==
    SetMin({ i \in 1..Len(rc_world) :
                SetMin(rc_Hits(ray)) \in ValidHits(rc_world[i].shape, ray, TraceWindow) })

\* what the scatter of the invocation e yields
rc_Scattered(e) ==
    scatter(rc_world[rc_First(e.ray)], at(e.ray, SetMin(rc_Hits(e.ray))), e.ray, e.u)

\* the invocation e ends the path: budget exhausted, miss, or absorbed
rc_Exhausted(e) == e.max_ray_bounces = 0
rc_Missed(e) == e.max_ray_bounces >= 1 /\ rc_Hits(e.ray) = {}
rc_Absorbed(e) ==
    e.max_ray_bounces >= 1 /\ rc_Hits(e.ray) # {} /\ is_none(rc_Scattered(e))
rc_Ends(e) == rc_Exhausted(e) \/ rc_Missed(e) \/ rc_Absorbed(e)

\* the colour the path ends in
rc_Terminal(e) == IF rc_Missed(e) THEN background(e.ray) ELSE Vector_zero

\* the attenuation of the scatter of the k-th invocation of the path
rc_Attenuation(k) == unwrap(rc_Scattered(rc_trace[k])).attenuation

\* the product of the attenuations of the invocations k and after with the
\* terminal colour, each attenuation multiplied on to the product of those
\* after it
rc_PathColour(k) ==
    LET colour[j \in k..Len(rc_trace)] ==
            IF j = Len(rc_trace) THEN rc_Terminal(rc_trace[j])
            ELSE colour_mul(rc_Attenuation(j), colour[j + 1])
    IN  colour[k]

\* C11: with budget >= 1 a miss ends the path in the background without a
\* scatter; a hit scatters at ray.at(t) on the first surface of the tie set,
\* ends the path in zero when absorbed and otherwise continues with the
\* scattered ray and budget - 1; the result is the product of the attenuations
\* along the path times the terminal colour.
C11_PathProduct ==
    rc_pc = "done" =>
        /\ Len(rc_trace) >= 1
        /\ rc_trace[1].ray = rc_arg.ray
        /\ rc_trace[1].max_ray_bounces = rc_arg.max_ray_bounces
        /\ \A k \in 1..Len(rc_trace) :
               IF rc_Ends(rc_trace[k]) THEN k = Len(rc_trace)
               ELSE /\ k < Len(rc_trace)
                    /\ rc_trace[k + 1].ray = unwrap(rc_Scattered(rc_trace[k])).ray
                    /\ rc_trace[k + 1].max_ray_bounces = rc_trace[k].max_ray_bounces - 1
        /\ rc_scatters = Cardinality({ k \in 1..Len(rc_trace) :
                                         /\ rc_trace[k].max_ray_bounces >= 1
                                         /\ rc_Hits(rc_trace[k].ray) # {} })
        /\ rc_value = rc_PathColour(1)

\* a path that scatters and ends in a miss, its first hit a tie between a
\* metal and a Lambertian sphere, the background attenuated
C11_Witness ==
    /\ rc_pc = "done"
    /\ Len(rc_trace) >= 2
    /\ rc_Missed(rc_trace[Len(rc_trace)])
    /\ Cardinality({ i \in 1..Len(rc_world) :
                        SetMin(rc_Hits(rc_arg.ray)) \in
                            ValidHits(rc_world[i].shape, rc_arg.ray, TraceWindow) }) >= 2
    /\ rc_value # Vector_zero
    /\ rc_value # background(rc_trace[Len(rc_trace)].ray)

\* the steps a call in progress has left at most: two for each unit of budget
\* of the invocation entered, one for each invocation awaiting its callee
rc_Variant ==
    2 * rc_budget + Len(rc_frames)
        + (IF rc_pc = "call" THEN 2 ELSE IF rc_pc = "return" THEN 1 ELSE 0)

\* C12: ray_colour terminates: each recursive call is made with a budget of
\* at least 1 and receives exactly one less (the u8 never wraps), so every
\* step of a call lowers a measure that is never negative; a call with budget
\* d makes at most d scene queries and at most d scatter calls.
C12_Terminates ==
    [][/\ rc_pc # "idle" => (rc_Variant' < rc_Variant /\ rc_Variant' >= 0)
       /\ Len(rc_frames') > Len(rc_frames) =>
              (rc_budget >= 1 /\ rc_budget' = rc_budget - 1)
       /\ rc_queries' <= rc_arg'.max_ray_bounces
       /\ rc_scatters' <= rc_arg'.max_ray_bounces]_vars

\* a scene in which every ray of the path hits: the largest budget is used up
\* to the last query and the last scatter
C12_Witness ==
    /\ rc_pc = "done"
    /\ rc_arg.max_ray_bounces = MaxBounces
    /\ rc_queries = MaxBounces
    /\ rc_scatters = MaxBounces
    /\ rc_Exhausted(rc_trace[Len(rc_trace)])

\* The loop form of ray_colour: a running product of attenuations, one
\* iteration for each unit of budget; it stops with product * background on
\* a miss, with zero when the scatter is absorbed, and ends in zero when the
\* budget is used up.  draws[k] is the random draw of the k-th iteration.
\* The product is kept as the colour, with the note whether every product
\* so far was a whole number of units, and in its red component as the f64
\* it is, with the note whether an f64 product was rounded.
loop_start(ray) ==
    [tag |-> "run", product |-> White, ray |-> ray, exact |-> TRUE,
     red |-> f64_red(White), rounded |-> FALSE]

\* the iteration stops on a miss: product * background(ray)
loop_miss(it) ==
    [tag |-> "stop",
     value |-> colour_mul(it.product, background(it.ray)),
     exact |-> (it.exact /\ ExactProduct(it.product, background(it.ray))),
     red |-> f64_mul(it.red, f64_red(background(it.ray))),
     rounded |-> (it.rounded \/ ~f64_mul_exact(it.red, f64_red(background(it.ray))))]

\* the iteration has scattered: it stops when absorbed, else the product
\* takes the attenuation on and the scattered ray is followed
loop_scattered(it, scattered_ray) ==
    IF is_none(scattered_ray)
    THEN [tag |-> "stop", value |-> Vector_zero, exact |-> it.exact,
          red |-> F64_zero, rounded |-> it.rounded]
    ELSE [tag |-> "run",
          product |-> colour_mul(it.product, unwrap(scattered_ray).attenuation),
          ray |-> unwrap(scattered_ray).ray,
          exact |-> (it.exact /\ ExactProduct(it.product, unwrap(scattered_ray).attenuation)),
          red |-> f64_mul(it.red, f64_red(unwrap(scattered_ray).attenuation)),
          rounded |-> (it.rounded \/ ~f64_mul_exact(it.red,
                                          f64_red(unwrap(scattered_ray).attenuation)))]

\* one iteration: the scene is queried with the ray followed
loop_queried(world, it, u, intersection) ==
    IF is_none(intersection) THEN loop_miss(it)
    ELSE loop_scattered(it, scatter(hit_surface(world, unwrap(intersection)),
                                    at(it.ray, unwrap(intersection).t), it.ray, u))

\* the loop from its k-th iteration on, it being what the iterations before
\* have left; after the last iteration the budget is used up
RECURSIVE loop_from(_, _, _, _, _)
loop_from(world, it, k, max_ray_bounces, draws) ==
    IF it.tag = "stop" THEN it
    ELSE IF k > max_ray_bounces
    THEN [tag |-> "end", value |-> Vector_zero, exact |-> it.exact,
          red |-> F64_zero, rounded |-> it.rounded]
    ELSE loop_from(world,
                   loop_queried(world, it, draws[k],
                                SurfaceSet_intersection(world, it.ray, TraceWindow)),
                   k + 1, max_ray_bounces, draws)

ray_colour_loop(world, ray, max_ray_bounces, draws) ==
    loop_from(world, loop_start(ray), 1, max_ray_bounces, draws)

\* the random draws of a call, in the order they were made
rc_Draws == [k \in 1..Len(rc_trace) |-> rc_trace[k].u]

\* what the loop form returns for the call that is done
rc_Loop == ray_colour_loop(rc_world, rc_arg.ray, rc_arg.max_ray_bounces, rc_Draws)

\* two f64 of the same exponent whose significands are at most n apart
f64_within(a, b, n) ==
    /\ a.kind = b.kind
    /\ a.e = b.e
    /\ a.m[3] = b.m[3] /\ a.m[4] = b.m[4] /\ a.m[5] = b.m[5]
    /\ (a.m[1] - b.m[1]) + F64Digit * (a.m[2] - b.m[2]) \in (-n)..n

\* the call that is done returned the colour the loop form returns: in the
\* red component the very same f64, and the same units where the loop's
\* products are f64 of whole units
rc_SameAs(loop) == rc_red = loop.red /\ (loop.exact => rc_value = loop.value)

\* the call that is done stopped in the case the loop form stops in; the
\* two colours are the same where the loop's products are f64 of whole
\* units, the same f64 in the red component when no f64 product of either
\* form was rounded, and within one unit in the last place for each product
\* made otherwise
rc_SameWhereExact(loop) ==
    /\ loop.tag = (IF rc_Exhausted(rc_trace[Len(rc_trace)]) THEN "end" ELSE "stop")
    /\ loop.exact => (rc_value = loop.value /\ rc_red = loop.red)
    /\ (~rc_rounded /\ ~loop.rounded) => rc_red = loop.red
    /\ f64_within(rc_red, loop.red, rc_arg.max_ray_bounces)

\* C13 as stated: the recursive ray_colour returns the colour the loop form
\* returns, for every scene, ray, budget and sequence of random draws; in
\* the red component the very same f64.
C13_LoopEquivalent == rc_pc = "done" => rc_SameAs(rc_Loop)

\* C13: the recursive ray_colour and the loop form stop in the same case
\* and multiply the same factors, the recursion from the terminal colour
\* outwards and the loop from the first attenuation inwards.  They return
\* the same colour where the products are exact: as a colour of exact
\* products, and as the same f64 in the red component when no f64 product of
\* either form was rounded; where products are rounded the two f64 are
\* within one unit in the last place for each product made.
C13_LoopEquivalentExact == rc_pc = "done" => rc_SameWhereExact(rc_Loop)

\* a darkening scatter and a second scatter, then a miss: the recursion
\* multiplies on the way back, the loop on the way in, and no product of
\* 0.5, 0.75 and the background's 0.75 is rounded
C13_Witness ==
    /\ rc_pc = "done"
    /\ Len(rc_trace) >= 3
    /\ ~rc_rounded
    /\ rc_Missed(rc_trace[Len(rc_trace)])
    /\ rc_Attenuation(1) # White
    /\ rc_Loop = [tag |-> "stop", value |-> rc_value, exact |-> TRUE, red |-> rc_red,
                  rounded |-> FALSE]
    /\ rc_red = f64_mul(f64_of_units(ColourOne \div 2),
                        f64_mul(f64_of_units((3 * ColourOne) \div 4),
                                f64_of_units((3 * ColourOne) \div 4)))

\* the two forms differ: after the scatters with the red attenuations 0.7
\* and 0.75 the recursion returns 0.7 * (0.75 * 0.75) and the loop
\* (0.7 * 0.75) * 0.75, which are two f64
C13_Rounded ==
    /\ rc_pc = "done"
    /\ rc_rounded
    /\ ~rc_SameAs(rc_Loop)

\* ------------------------------------------------------ the camera's pixels

\* the centre of the pixel (x, y) of the camera
cm_Centre(cam, x, y) ==
    add(add(cam.pixel00, mul_f64(cam.pixel_delta_u, x)), mul_f64(cam.pixel_delta_v, y))

\* the point a ray built by the camera aims at
cm_Aim(ray) == add(ray.origin, ray.direction)

\* the direct rays among the rays of the rendered pixel
cm_Direct ==
    { i \in DOMAIN unwrap(cm_pixel).rays :
        unwrap(cm_pixel).rays[i].sample_space = Interval_empty }

\* the times at which a ray meets any surface of a scene, by geometry; a ray
\* without a direction goes nowhere
cm_Hits(world, ray) ==
    IF Directed(ray)
    THEN UNION { ValidHits(world[i].shape, ray, TraceWindow) : i \in 1..Len(world) }
    ELSE { }

\* the background gradient: white and sky blue blended by (y + 1) / 2 of the
\* unit direction, twice_a being y + 1
cm_Gradient(twice_a) ==
    Vector_new(div(ColourOne * (2 - twice_a) + (ColourOne \div 2) * twice_a, 2),
               div(ColourOne * (2 - twice_a) + ((7 * ColourOne) \div 10) * twice_a, 2),
               div(ColourOne * (2 - twice_a) + ColourOne * twice_a, 2))

\* the colour of the traced ray r tells the budget it was traced with: zero
\* with the budget 0; with a budget of 1 or more the gradient where the ray
\* meets nothing, and zero where it meets a surface and the budget is 1
cm_TracedWith(world, r, budget) ==
    /\ r.max_ray_bounces = budget
    /\ budget = 0 => r.colour = Vector_zero
    /\ (budget >= 1 /\ Directed(r.ray) /\ cm_Hits(world, r.ray) = { }) =>
           r.colour = cm_Gradient(normalise(r.ray.direction).y + 1)
    /\ (budget = 1 /\ cm_Hits(world, r.ray) # { }) => r.colour = Vector_zero

\* C14: a rendered pixel has traced antialiasing + 1 rays, exactly one of
\* them the direct ray through the pixel's centre, each with the camera's
\* whole max_ray_bounces, and its colour times antialiasing + 1 is the sum of
\* the colours of these rays; so it is for the antialiasing 255 as well,
\* where the count of rays is 256.
C14_PixelAverage ==
    is_some(cm_pixel) =>
        /\ Len(unwrap(cm_pixel).rays) = unwrap(cm_camera).antialiasing + 1
        /\ Cardinality(cm_Direct) = 1
        /\ \A i \in cm_Direct :
              cm_Aim(unwrap(cm_pixel).rays[i].ray)
                  = cm_Centre(unwrap(cm_camera), unwrap(cm_pixel).x, unwrap(cm_pixel).y)
        /\ \A i \in DOMAIN unwrap(cm_pixel).rays :
              cm_TracedWith(unwrap(cm_pixel).world, unwrap(cm_pixel).rays[i],
                            unwrap(cm_camera).max_ray_bounces)
        /\ mul_f64(unwrap(cm_pixel).colour, unwrap(cm_camera).antialiasing + 1)
               = vector_sum(unwrap(cm_pixel).rays)

\* a pixel rendered with antialiasing 255: 256 rays, not all of them through
\* the centre, and the colour zero of their zero colours, which is not the
\* NaN of a division by the count 0
C14_Witness ==
    /\ is_some(cm_pixel)
    /\ unwrap(cm_camera).antialiasing = U8Max
    /\ Len(unwrap(cm_pixel).rays) = U8Max + 1
    /\ \E i \in DOMAIN unwrap(cm_pixel).rays :
          cm_Aim(unwrap(cm_pixel).rays[i].ray)
              # cm_Centre(unwrap(cm_camera), unwrap(cm_pixel).x, unwrap(cm_pixel).y)
    /\ unwrap(cm_pixel).colour = Vector_zero

\* the offset of the built ray's aim from the pixel's centre, in units of
\* 1/SubPixel of a pixel, along the two pixel deltas
cm_Offset(ox, oy) ==
    mul_f64(cm_Aim(unwrap(cm_built).ray), SubPixel)
        = add(mul_f64(cm_Centre(unwrap(cm_camera), unwrap(cm_built).x, unwrap(cm_built).y),
                      SubPixel),
              add(mul_f64(unwrap(cm_camera).pixel_delta_u, ox),
                  mul_f64(unwrap(cm_camera).pixel_delta_v, oy)))

\* C15: a ray built with the empty sample space starts at the eye and aims
\* at the pixel's centre whatever is drawn; a ray built with the sample
\* space [-0.5, 0.5] aims at the centre offset along x by -0.5 plus the
\* first draw and along y by -0.5 plus the second draw, both within half a
\* pixel of the centre.
C15_BuildRayAim ==
    is_some(cm_built) =>
        /\ unwrap(cm_built).ray.origin = unwrap(cm_camera).eye_point
        /\ unwrap(cm_built).sample_space = Interval_empty => cm_Offset(0, 0)
        /\ unwrap(cm_built).sample_space = diffusion =>
              /\ cm_Offset(unwrap(cm_built).rand_x - (SubPixel \div 2),
                           unwrap(cm_built).rand_y - (SubPixel \div 2))
              /\ \E ox \in (-(SubPixel \div 2))..(SubPixel \div 2),
                     oy \in (-(SubPixel \div 2))..(SubPixel \div 2) : cm_Offset(ox, oy)

\* a sample of the second row's second pixel, moved left by the most and
\* down by the most that can be drawn
C15_Witness ==
    /\ is_some(cm_built)
    /\ unwrap(cm_built).sample_space = diffusion
    /\ unwrap(cm_built).x = 1 /\ unwrap(cm_built).y = 1
    /\ unwrap(cm_built).rand_x = 0 /\ unwrap(cm_built).rand_y = SubPixel - 1
    /\ cm_Offset(-(SubPixel \div 2), (SubPixel \div 2) - 1)
    /\ ~cm_Offset(0, 0)

\* a colour with its three components in [0, 1]
UnitColour(c) ==
    /\ ~is_nan(c)
    /\ c.x \in 0..ColourOne
    /\ c.y \in 0..ColourOne
    /\ c.z \in 0..ColourOne

\* every material of the scene attenuates by a colour in [0, 1]
UnitAttenuations(world) ==
    \A i \in 1..Len(world) :
        world[i].material.kind \in {"Lambertian", "Metal"} => UnitColour(world[i].material.albedo)

\* every ray of the pixel was built with a direction, as the camera builds
\* them unless its focal length is zero
cm_AllDirected == \A i \in DOMAIN unwrap(cm_pixel).rays : Directed(unwrap(cm_pixel).rays[i].ray)

\* a ray of the pixel has a colour that is NaN
cm_SomeNaN == \E i \in DOMAIN unwrap(cm_pixel).rays : is_nan(unwrap(cm_pixel).rays[i].colour)

\* C16: when the materials of the scene attenuate by colours in [0, 1], the
\* colour ray_colour returns for every ray of a pixel, and the pixel's
\* averaged colour, have their three components in [0, 1]; the rays are
\* those of a camera that gives each a direction.
C16_ColoursInUnitCube ==
    (is_some(cm_pixel) /\ UnitAttenuations(unwrap(cm_pixel).world) /\ cm_AllDirected) =>
        /\ \A i \in DOMAIN unwrap(cm_pixel).rays : UnitColour(unwrap(cm_pixel).rays[i].colour)
        /\ UnitColour(unwrap(cm_pixel).colour)

\* the colours lie in [0, 1] wherever no ray's colour is NaN
C16_UnitCubeUnlessNaN ==
    (is_some(cm_pixel) /\ UnitAttenuations(unwrap(cm_pixel).world) /\ ~cm_SomeNaN) =>
        /\ \A i \in DOMAIN unwrap(cm_pixel).rays : UnitColour(unwrap(cm_pixel).rays[i].colour)
        /\ UnitColour(unwrap(cm_pixel).colour)

\* every component of the first colour is below that of the second
Darker(c, d) == c.x < d.x /\ c.y < d.y /\ c.z < d.z

\* The scenario of the specification: the camera at the origin with the
\* image of 400 x 225 pixels on the viewport of 32/9 x 2 at the focal length
\* 1, its lengths counted in 1/450, which makes a pixel SubPixel wide and
\* high; the sphere of radius 0.5 around (0, 0, -1) and the ground sphere of
\* radius 100 around (0, -100.5, -1), their lengths counted in 1/2.
ScenarioForeground == unwrap(Sphere_new(Vector_new(0, 0, -2), 1))
ScenarioGround == unwrap(Sphere_new(Vector_new(0, -201, -2), 200))
ScenarioCamera == Camera_new(400, 225, 400 * SubPixel, 225 * SubPixel, 225 * (SubPixel \div 2), 0, 1)
ScenarioRay(x, y) == build_ray(ScenarioCamera, x, y, Interval_empty, 0, 0)

\* the ray with its direction halved, that is counted in 1/225: against the
\* spheres a time t of the camera's ray is the time 2 * t / 225 of this ray
ScenarioHalved(ray) == Ray_new(ray.origin, div_f64(ray.direction, 2))

\* Sphere::intersection finds a root above 0.001 for the ray, decided from
\* the signs of its terms: with s the whole part of the square root of the
\* discriminant, the root (h - s) / a and so the root (h + s) / a exceeds
\* (h - s - 1) / a.  The time 0.001 is the time 1/112500 of the halved ray.
ScenarioMeets(sphere, ray) ==
    LET oc == sub(sphere.center, ray.origin)
        a == l2_norm_squared(ray.direction)
        h == dot(ray.direction, oc)
        c == l2_norm_squared(oc) - sphere.radius * sphere.radius
    IN  /\ h * h - a * c >= 0
        /\ ~(h <= 0 /\ c >= 0)
        /\ (h - sqrt(h * h - a * c) - 1) * 112500 >= a

\* Sphere::intersection finds no root above 0.001 for the ray: the
\* discriminant is negative, or both roots are negative or zero, as they
\* are when h <= 0 and c >= 0
ScenarioMisses(sphere, ray) ==
    LET oc == sub(sphere.center, ray.origin)
        a == l2_norm_squared(ray.direction)
        h == dot(ray.direction, oc)
        c == l2_norm_squared(oc) - sphere.radius * sphere.radius
    IN  \/ h * h - a * c < 0
        \/ (h <= 0 /\ c >= 0)

\* the pixel rendered is one of a camera with max_ray_bounces 1 and
\* antialiasing 0
cm_OneBounce ==
    /\ is_some(cm_pixel)
    /\ unwrap(cm_camera).antialiasing = 0
    /\ unwrap(cm_camera).max_ray_bounces = 1

\* the pixel's colour is zero where its direct ray meets a surface, and a
\* colour of the gradient, which is brighter than zero, where it meets none
cm_HitDarkerThanMiss ==
    /\ cm_Hits(unwrap(cm_pixel).world, unwrap(cm_pixel).rays[1].ray) # {}
          => unwrap(cm_pixel).colour = Vector_zero
    /\ cm_Hits(unwrap(cm_pixel).world, unwrap(cm_pixel).rays[1].ray) = {}
          => \E twice_a \in 0..2 :
                 /\ unwrap(cm_pixel).colour = cm_Gradient(twice_a)
                 /\ Darker(Vector_zero, unwrap(cm_pixel).colour)

\* in the scenario of the specification the ray of the centre pixel
\* (200, 112) meets the foreground sphere, and the ray of the top row's
\* centre pixel (200, 0) meets neither sphere
ScenarioHolds ==
    /\ ScenarioMeets(ScenarioForeground, ScenarioHalved(ScenarioRay(200, 112)))
    /\ ScenarioMisses(ScenarioGround, ScenarioHalved(ScenarioRay(200, 112)))
    /\ ScenarioMisses(ScenarioForeground, ScenarioHalved(ScenarioRay(200, 0)))
    /\ ScenarioMisses(ScenarioGround, ScenarioHalved(ScenarioRay(200, 0)))

\* C17 as stated: with max_ray_bounces 1 and antialiasing 0 the colour of a
\* pixel whose direct ray meets a surface is zero, the colour of a pixel
\* whose direct ray meets none is the background gradient of that ray, and
\* zero is darker than every colour of the gradient, for every camera; and
\* the scenario of the specification.
C17_HitDarkerThanMiss ==
    /\ cm_OneBounce => cm_HitDarkerThanMiss
    /\ \A twice_a \in 0..2 : Darker(Vector_zero, cm_Gradient(twice_a))
    /\ ScenarioHolds

\* C17: the same for every pixel whose direct ray has a direction, which is
\* every pixel unless the focal length is zero and the pixel's centre is the
\* eye; the colour of a pixel whose direct ray has no direction is NaN,
\* which is brighter than nothing.
C17_HitDarkerThanMissDirected ==
    /\ (cm_OneBounce /\ Directed(unwrap(cm_pixel).rays[1].ray)) => cm_HitDarkerThanMiss
    /\ (cm_OneBounce /\ ~Directed(unwrap(cm_pixel).rays[1].ray)) =>
           is_nan(unwrap(cm_pixel).colour)
    /\ \A twice_a \in 0..2 : Darker(Vector_zero, cm_Gradient(twice_a))
    /\ ScenarioHolds

\* a pixel of a camera with one bounce and no antialiasing whose direct ray
\* meets a sphere of the scene
C17_Witness ==
    /\ is_some(cm_pixel)
    /\ unwrap(cm_camera).antialiasing = 0
    /\ unwrap(cm_camera).max_ray_bounces = 1
    /\ cm_Hits(unwrap(cm_pixel).world, unwrap(cm_pixel).rays[1].ray) # {}
    /\ unwrap(cm_pixel).colour = Vector_zero

\* ------------------------------------------------------- the scatter calls

\* the material of the scatter call in progress
sc_Kind == unwrap(sc_surface).material.kind

\* C18: a scatter call has run the entering-surface probe no time while and
\* after a Lambertian or a Metal material reflects, and exactly once when a
\* Dielectric material has reflected, never more.
C18_ProbeOnlyForDielectric ==
    sc_pc # "idle" =>
        /\ sc_Kind \in {"Lambertian", "Metal"} => sc_probes = 0
        /\ sc_Kind = "Dielectric" =>
              sc_probes = (IF sc_pc \in {"probed", "done"} THEN 1 ELSE 0)
        /\ sc_probes = (IF is_some(sc_entering) THEN 1 ELSE 0)

\* a Dielectric scatter has returned for a ray that leaves the sphere: the
\* probe ran once and found no surface ahead
C18_Witness ==
    /\ sc_pc = "done"
    /\ sc_Kind = "Dielectric"
    /\ sc_probes = 1
    /\ sc_entering = Some(FALSE)
    /\ is_some(sc_result)

\* the cross product: zero for parallel vectors
sc_Cross(a, b) ==
    Vector_new(a.y * b.z - a.z * b.y, a.z * b.x - a.x * b.z, a.x * b.y - a.y * b.x)

\* a is parallel to b and points the same way
sc_Parallel(a, b) == sc_Cross(a, b) = Vector_zero /\ dot(a, b) > 0

\* the direction of the scattered ray
sc_Direction == unwrap(sc_result).ray.direction

\* the part of v along the unit vector n, and the part across it
sc_Along(v, n) == mul_f64(n, dot(v, n))
sc_Across(v, n) == sub(v, sc_Along(v, n))

\* C19: a Metal scatter returns a ray, attenuated by the albedo, whose
\* direction is parallel to d - 2 (d . n) n for the incident direction d and
\* the rebound normal n: scaled to the length of d, its part along n is that
\* of d negated and its part across n is that of d, and reflected once more
\* about n it is parallel to d.
C19_MetalMirror ==
    (sc_pc = "done" /\ sc_Kind = "Metal") =>
        /\ is_some(sc_result)
        /\ unwrap(sc_result).attenuation = unwrap(sc_surface).material.albedo
        /\ ~is_nan(sc_Direction)
        /\ sc_Parallel(sc_Direction,
                       sub(unwrap(sc_ray).direction,
                           mul_f64(sc_Along(unwrap(sc_ray).direction, sc_rebound_normal), 2)))
        /\ mul_f64(sc_Along(sc_Direction, sc_rebound_normal),
                   l2_norm(unwrap(sc_ray).direction))
               = mul_f64(sc_Along(unwrap(sc_ray).direction, sc_rebound_normal), -1)
        /\ mul_f64(sc_Across(sc_Direction, sc_rebound_normal),
                   l2_norm(unwrap(sc_ray).direction))
               = sc_Across(unwrap(sc_ray).direction, sc_rebound_normal)
        /\ sc_Parallel(sub(sc_Direction,
                           mul_f64(sc_Along(sc_Direction, sc_rebound_normal), 2)),
                       unwrap(sc_ray).direction)

\* a Metal scatter of a ray of length 2 that meets the sphere head-on and
\* comes back
C19_Witness ==
    /\ sc_pc = "done"
    /\ sc_Kind = "Metal"
    /\ l2_norm(unwrap(sc_ray).direction) = 2
    /\ dot(unwrap(sc_ray).direction, sc_rebound_normal) = -2
    /\ sc_Direction = sc_rebound_normal
    /\ unwrap(sc_result).attenuation = SkyBlue

\* C20: a Lambertian scatter returns a ray, attenuated by the albedo, whose
\* direction is parallel to n + u for the rebound normal n and the unit
\* vector u drawn, and has a dot product with n that is not negative, for
\* every n and u.
C20_LambertianHemisphere ==
    (sc_pc = "done" /\ sc_Kind = "Lambertian") =>
        /\ is_some(sc_result)
        /\ unwrap(sc_result).attenuation = unwrap(sc_surface).material.albedo
        /\ ~is_nan(sc_Direction)
        /\ sc_Parallel(sc_Direction, add(sc_rebound_normal, unwrap(sc_u)))
        /\ dot(sc_Direction, sc_rebound_normal) >= 0

\* the times after the scatter at which the ray, going on from the point,
\* meets the shape again, by geometry
sc_Ahead ==
    { t \in 1..MaxTime :
        OnSphere(unwrap(sc_surface).shape,
                 Ray_new(unwrap(sc_point), unwrap(sc_ray).direction), t) }

\* the direction in which the rebound normal mirrors the incident ray
sc_Mirrored ==
    sub(unwrap(sc_ray).direction,
        mul_f64(sc_Along(unwrap(sc_ray).direction, sc_rebound_normal), 2))

\* C21: a Dielectric scatter returns a ray, attenuated by white (1, 1, 1),
\* for every incident direction, rebound normal and answer of the probe;
\* the probe reports entering exactly when the shape lies ahead of the
\* point, and the relative index computed is the refraction index then and
\* its inverse otherwise.  The ray is never the mirrored one: met head-on it
\* goes on along the incident direction, and where it grazes the surface
\* beyond the critical angle, where it could only be reflected, its
\* direction is NaN.
C21_DielectricRefracts ==
    (sc_pc = "done" /\ sc_Kind = "Dielectric") =>
        /\ is_some(sc_result)
        /\ unwrap(sc_result).attenuation = Vector_new(ColourOne, ColourOne, ColourOne)
        /\ is_some(sc_entering) /\ is_some(sc_relative)
        /\ unwrap(sc_entering) = (sc_Ahead # { })
        /\ unwrap(sc_entering) =>
              /\ unwrap(sc_relative).num = unwrap(sc_surface).material.refraction_index.num
              /\ unwrap(sc_relative).den = unwrap(sc_surface).material.refraction_index.den
        /\ ~unwrap(sc_entering) =>
              /\ unwrap(sc_relative).num = unwrap(sc_surface).material.refraction_index.den
              /\ unwrap(sc_relative).den = unwrap(sc_surface).material.refraction_index.num
        /\ sc_Across(unwrap(sc_ray).direction, sc_rebound_normal) = Vector_zero
              => sc_Parallel(sc_Direction, unwrap(sc_ray).direction)
        /\ sc_Along(unwrap(sc_ray).direction, sc_rebound_normal) = Vector_zero
              => is_nan(sc_Direction)
        /\ ~sc_Parallel(sc_Direction, sc_Mirrored)

\* a Dielectric scatter of a ray that grazes the sphere: nothing lies ahead,
\* the index 3/2 is inverted to 2/3, the perpendicular part is 1.5 long, and
\* the ray returned is white with a NaN direction where a mirror would have
\* sent it straight on
C21_Witness ==
    /\ sc_pc = "done"
    /\ sc_Kind = "Dielectric"
    /\ sc_entering = Some(FALSE)
    /\ unwrap(sc_relative) = [num |-> 2, den |-> 3]
    /\ sc_Along(unwrap(sc_ray).direction, sc_rebound_normal) = Vector_zero
    /\ sc_Parallel(sc_Mirrored, unwrap(sc_ray).direction)
    /\ is_some(sc_result)
    /\ unwrap(sc_result).attenuation = Vector_new(ColourOne, ColourOne, ColourOne)
    /\ is_nan(sc_Direction)

\* the channel value of a component n / ColourScale in [0, 1]: the whole
\* number k with k <= 255 * g(n / ColourScale) < k + 1, where g is the
\* square root under gamma correction and the identity without it
ig_Channel(gamma_correct, n) ==
    CHOOSE k \in 0..U8Max :
        IF gamma_correct
        THEN /\ ColourScale * k * k <= U8Max * U8Max * n
             /\ U8Max * U8Max * n < ColourScale * (k + 1) * (k + 1)
        ELSE /\ ColourScale * k <= U8Max * n
             /\ U8Max * n < ColourScale * (k + 1)

\* the positions (row, column) of the image
ig_Positions == (0..(unwrap(ig_image).height - 1)) \X (0..(unwrap(ig_image).width - 1))

\* the pixel collected for row r and column c
ig_At(r, c) == unwrap(ig_collected)[r * unwrap(ig_image).width + c + 1]

\* the vector the generator of the image returns for column c of row r
ig_Vector(r, c) == vector_generator(unwrap(ig_image).pixels.generator, c, r)

\* channel value "to" is the image of component "from" under the gamma setting
ig_Maps(from, to) ==
    (0 <= from /\ from <= ColourScale) =>
        /\ to = ig_Channel(unwrap(ig_image).pixels.gamma_correct, from)
        /\ from = 0 => to = 0
        /\ from = ColourScale => to = U8Max
        /\ (unwrap(ig_image).pixels.gamma_correct /\ 4 * from = ColourScale) => to = 127

\* the vectors of the image, each with a pixel collected for it
ig_Pairs == { << ig_Vector(p[1], p[2]), ig_At(p[1], p[2]) >> : p \in ig_Positions }

\* C22: every pixel of an image from vectors has its channels in 0..255,
\* and a component in [0, 1] gives the truncation of 255 times the component
\* (of its square root under gamma correction): 0.0 gives 0, 1.0 gives 255,
\* and 0.25 under gamma correction gives 127.
C22_VectorToChannels ==
    (is_some(ig_collected) /\ unwrap(ig_image).pixels.kind = "vectors") =>
        \A q \in ig_Pairs :
            /\ q[2].red \in 0..U8Max
            /\ q[2].green \in 0..U8Max
            /\ q[2].blue \in 0..U8Max
            /\ ig_Maps(q[1].x, q[2].red)
            /\ ig_Maps(q[1].y, q[2].green)
            /\ ig_Maps(q[1].z, q[2].blue)

\* the image of the test image_from_vector_at_bounds, collected
C22_Witness ==
    /\ is_some(ig_collected)
    /\ unwrap(ig_image) = Image_from_vectors(1, 1, "bounds", TRUE)
    /\ unwrap(ig_collected) = << Pixel_new(0, 127, U8Max) >>

\* C23: collect yields height * width pixels, and the pixel at index
\* r * width + c is what the generator gives for column c of row r.
C23_RowMajor ==
    is_some(ig_collected) =>
        /\ Len(unwrap(ig_collected)) = unwrap(ig_image).height * unwrap(ig_image).width
        /\ { p \in ig_Positions :
               ig_At(p[1], p[2]) # pixels_item(unwrap(ig_image).pixels, p[2], p[1]) } = { }

\* the two rows of three of the example of from_pixels: index 4 is column 1
\* of row 1
C23_Witness ==
    /\ is_some(ig_collected)
    /\ unwrap(ig_image) = Image_from_pixels(2, 3, "index")
    /\ Len(unwrap(ig_collected)) = 6
    /\ unwrap(ig_collected)[5] = Pixel_new(1, 1, 0)
    /\ unwrap(ig_collected)[3] = Pixel_new(2, 0, 0)

\* a row of the largest width, collected
C23_WitnessLarge ==
    /\ is_some(ig_collected)
    /\ unwrap(ig_image) = Image_from_pixels(1, U16Max, "index")
    /\ Len(unwrap(ig_collected)) = U16Max
    /\ unwrap(ig_collected)[U16Max] = Pixel_new(254, 0, 0)

\* the chunks one after another
RECURSIVE wr_Concat(_, _, _)
wr_Concat(chunks, lo, hi) ==
    IF hi < lo THEN << >>
    ELSE IF hi = lo THEN chunks[lo]
    ELSE wr_Concat(chunks, lo, (lo + hi) \div 2) \o wr_Concat(chunks, (lo + hi) \div 2 + 1, hi)

\* all the chunks the iterator of the call yields: the header, then a chunk
\* for each pixel in order
wr_AllChunks ==
    LET iter == unwrap(wr_iter)
    IN  << header(PPMFormatter_new(iter.ascii_mode), [width |-> iter.width, height |-> iter.height]) >>
            \o [i \in 1..Len(iter.pixels) |-> pixel_bytes(iter.ascii_mode, iter.pixels[i])]

\* the sequence is a proper prefix of the chunk
wr_ProperPrefix(bytes, chunk) ==
    Len(bytes) < Len(chunk) /\ bytes = SubSeq(chunk, 1, Len(bytes))

\* C24: while write_to_file runs the file holds the chunks yielded so far,
\* each once and in order; it returns Ok only when the iterator has yielded
\* every chunk, and then the file is their concatenation; when a write to
\* the file fails it returns the error with the file holding the chunks
\* before the failing one and a part of that one, and nothing of a later
\* chunk; an error of the progress message is returned with the file
\* holding whole chunks.
C24_WritesChunksInOrder ==
    /\ wr_pc = "loop" => wr_file = wr_Concat(wr_yielded, 1, Len(wr_yielded))
    /\ wr_pc = "done" =>
          /\ wr_yielded = SubSeq(wr_AllChunks, 1, Len(wr_yielded))
          /\ wr_result = Some("Ok") =>
                /\ wr_yielded = wr_AllChunks
                /\ wr_file = wr_Concat(wr_AllChunks, 1, Len(wr_AllChunks))
          /\ wr_result = Some("Err file") =>
                /\ Len(wr_yielded) >= 1
                /\ Len(wr_file) >= Len(wr_Concat(wr_yielded, 1, Len(wr_yielded) - 1))
                /\ SubSeq(wr_file, 1, Len(wr_Concat(wr_yielded, 1, Len(wr_yielded) - 1)))
                      = wr_Concat(wr_yielded, 1, Len(wr_yielded) - 1)
                /\ wr_ProperPrefix(SubSeq(wr_file,
                                          Len(wr_Concat(wr_yielded, 1, Len(wr_yielded) - 1)) + 1,
                                          Len(wr_file)),
                                   wr_yielded[Len(wr_yielded)])
          /\ wr_result = Some("Err stdout") =>
                wr_file = wr_Concat(wr_yielded, 1, Len(wr_yielded))
          /\ wr_result \in { Some("Ok"), Some("Err file"), Some("Err stdout") }

\* a binary image of two rows of three is written whole: the header
\* "P6\n3 2\n255\n" and six chunks of three bytes
C24_Witness ==
    /\ wr_pc = "done"
    /\ wr_result = Some("Ok")
    /\ Len(wr_yielded) = 7
    /\ wr_yielded[1] = << 80, 54, 10, 51, 32, 50, 10, 50, 53, 53, 10 >>
    /\ Len(wr_file) = 11 + 18
    /\ SubSeq(wr_file, 24, 26) = << 1, 1, 0 >>

\* a write fails in the middle of the third chunk
C24_WitnessError ==
    /\ wr_pc = "done"
    /\ wr_result = Some("Err file")
    /\ Len(wr_yielded) = 3
    /\ Len(wr_file) = 11 + 3 + 1

\* the progress message fails after 1000 bytes
C24_WitnessProgress ==
    /\ wr_pc = "done"
    /\ wr_result = Some("Err stdout")
    /\ Len(wr_file) = ProgressPeriod

\* the length of the header of the call
wr_HeaderLen ==
    Len(header(PPMFormatter_new(unwrap(wr_iter).ascii_mode),
               [width |-> unwrap(wr_iter).width, height |-> unwrap(wr_iter).height]))

\* the number of pixels of the written image
wr_PixelCount == unwrap(wr_iter).width * unwrap(wr_iter).height

\* len is the header length plus 3 bytes a pixel in binary mode and 12 in
\* ASCII mode, and in binary mode the bytes written are as many
C28_BinaryLenExact ==
    wr_result = Some("Ok") =>
        /\ wr_size = wr_HeaderLen
                       + (IF unwrap(wr_iter).ascii_mode THEN 4 * 3 * wr_PixelCount
                          ELSE 3 * wr_PixelCount)
        /\ ~unwrap(wr_iter).ascii_mode => Len(wr_file) = wr_size

\* C28: len is the header length plus 3 bytes a pixel in binary mode and
\* 4 * 3 bytes a pixel in ASCII mode; the bytes get_bytes yields are as many
\* in binary mode and never more in ASCII mode.
C28_LenCoversBytes ==
    wr_result = Some("Ok") =>
        /\ wr_size = wr_HeaderLen
                       + (IF unwrap(wr_iter).ascii_mode THEN 4 * 3 * wr_PixelCount
                          ELSE 3 * wr_PixelCount)
        /\ ~unwrap(wr_iter).ascii_mode => Len(wr_file) = wr_size
        /\ unwrap(wr_iter).ascii_mode => Len(wr_file) <= wr_size

\* C25: the u32 of a Pixel is red * 65536 + green * 256 + blue, its leading
\* byte is zero, and two different pixels have different values.
C25_PixelToU32 ==
    is_some(px_pixel) =>
        /\ px_u32 = unwrap(px_pixel).red * 65536 + unwrap(px_pixel).green * 256
                      + unwrap(px_pixel).blue
        /\ px_u32 \div 2^24 = 0
        /\ (px_u32 \div 65536) % 256 = unwrap(px_pixel).red
        /\ (px_u32 \div 256) % 256 = unwrap(px_pixel).green
        /\ px_u32 % 256 = unwrap(px_pixel).blue
        /\ (is_some(px_earlier) /\ px_earlier # px_pixel) => px_earlier_u32 # px_u32

\* the crimson of the example is 0xdc143c, after the red of the test, 0xff0000
C25_Witness ==
    /\ px_pixel = Some(Pixel_new(220, 20, 60))
    /\ px_u32 = 14423100
    /\ px_earlier = Some(Pixel_new(U8Max, 0, 0))
    /\ px_earlier_u32 = 16711680

\* the comparison holds for every component of the vector compared last
cp_Every(Holds(_, _)) ==
    /\ ~is_nan(unwrap(cp_vector))
    /\ ~cp_scalar.nan
    /\ Holds(unwrap(cp_vector).x, cp_scalar.value)
    /\ Holds(unwrap(cp_vector).y, cp_scalar.value)
    /\ Holds(unwrap(cp_vector).z, cp_scalar.value)

cp_Eq(a, b) == a = b
cp_Le(a, b) == a <= b
cp_Ge(a, b) == a >= b
cp_Lt(a, b) == a < b
cp_Gt(a, b) == a > b

\* C26: a comparison of a Vector with an f64, from either side, holds iff
\* it holds between every component and the f64 (no comparison with NaN
\* holds).
C26_ScalarBroadcast ==
    is_some(cp_result) =>
        /\ unwrap(cp_result).v_eq_s <=> cp_Every(cp_Eq)
        /\ unwrap(cp_result).s_eq_v <=> cp_Every(cp_Eq)
        /\ unwrap(cp_result).v_le_s <=> cp_Every(cp_Le)
        /\ unwrap(cp_result).v_ge_s <=> cp_Every(cp_Ge)
        /\ unwrap(cp_result).v_lt_s <=> cp_Every(cp_Lt)
        /\ unwrap(cp_result).v_gt_s <=> cp_Every(cp_Gt)
        /\ unwrap(cp_result).s_le_v <=> cp_Every(cp_Ge)
        /\ unwrap(cp_result).s_ge_v <=> cp_Every(cp_Le)
        /\ unwrap(cp_result).s_lt_v <=> cp_Every(cp_Gt)
        /\ unwrap(cp_result).s_gt_v <=> cp_Every(cp_Lt)

\* (-1, 0, 0) against 0: <= holds, < fails on the second component, and
\* == fails
C26_Witness ==
    /\ cp_vector = Some(Vector_new(-1, 0, 0))
    /\ cp_scalar = f64_of(0)
    /\ unwrap(cp_result).v_le_s
    /\ unwrap(cp_result).s_ge_v
    /\ ~unwrap(cp_result).v_lt_s
    /\ ~unwrap(cp_result).v_eq_s

\* the scan is running or has returned
ss_Scanning == ss_pc \in { "scan", "done" }

\* the window of a scan: the lower bound is the caller's, the upper bound
\* is not above the caller's nor below the lower bound, and it is the
\* recorded time whenever a result is recorded
ss_WindowSound ==
    /\ ss_window.min = ss_interval.min
    /\ ss_window.max <= ss_interval.max
    /\ ss_window.min <= ss_window.max
    /\ is_some(ss_out) => ss_window.max = unwrap(ss_out).t

\* a step of the scan
ss_WindowStep ==
    /\ ss_Scanning' => ss_WindowSound'
    /\ (ss_pc = "scan" /\ ss_Scanning') =>
          /\ ss_window'.min = ss_window.min
          /\ ss_window'.max <= ss_window.max
          /\ (is_some(ss_out) /\ ss_out' # ss_out) =>
                \/ unwrap(ss_out').t < unwrap(ss_out).t
                \/ /\ unwrap(ss_out').t = unwrap(ss_out).t
                   /\ Len(unwrap(ss_out').surfaces) = Len(unwrap(ss_out).surfaces) + 1

\* C27: at every step of the scan the lower bound of the window stays, the
\* upper bound does not increase, min <= max, the upper bound is the
\* recorded time once a result is recorded, and a surface that changes the
\* result does so with a strictly nearer time or joins the tie at that time.
C27_WindowShrinks == [][ss_WindowStep]_vars

\* the window has shrunk twice: the second member's hit was recorded and
\* the third member's nearer hit replaced it
C27_Witness ==
    /\ ss_pc = "scan"
    /\ ss_idx = 4
    /\ is_some(ss_out)
    /\ unwrap(ss_out).surfaces = << 3 >>
    /\ ss_window.max = unwrap(ss_out).t
    /\ ss_window.max < ss_interval.max
    /\ ss_window.min = ss_interval.min

\* C29: a result of the scan, whatever was added and cleared before it,
\* lists at least one surface, each a member of the set, so its first
\* element exists.
C29_NonEmptySurfaces ==
    (ss_Scanning /\ is_some(ss_out)) =>
        /\ Len(unwrap(ss_out).surfaces) >= 1
        /\ unwrap(ss_out).surfaces[1] \in 1..Len(ss_surfaces)

\* a result returned by a set that was refilled after a clear
C29_Witness ==
    /\ ss_pc = "done"
    /\ is_some(ss_out)
    /\ Len(ss_surfaces) = 1
    /\ unwrap(ss_out).surfaces = << 1 >>

\* C30: for a grazing ray (D.N = 0) normal_against_ray returns a vector as
\* long as the normal and not zero: -N when the dot product is +0.0, and N
\* when it is -0.0.
C30_GrazingNormal ==
    (na_pc = "done" /\ dot(na_ray.direction, na_axis) = 0) =>
        /\ na_result \in { na_axis, mul_f64(na_axis, -1) }
        /\ ~is_nan(na_result)
        /\ na_result # Vector_zero
        /\ l2_norm_squared(na_result) = l2_norm_squared(na_axis)
        /\ ~dot_is_negative_zero(na_axis, na_ray.direction) => na_result = mul_f64(na_axis, -1)
        /\ dot_is_negative_zero(na_axis, na_ray.direction) => na_result = na_axis

\* a ray along y grazes the sphere at its point in direction x: the dot
\* product is +0.0 and the normal is flipped
C30_Witness ==
    /\ na_pc = "done"
    /\ na_axis = Vector_new(1, 0, 0)
    /\ na_ray.direction = Vector_new(0, 1, 0)
    /\ na_result = Vector_new(-1, 0, 0)

\* a grazing ray whose dot product with the normal is -0.0: the normal stays
C30_WitnessNegativeZero ==
    /\ na_pc = "done"
    /\ dot(na_ray.direction, na_axis) = 0
    /\ dot_is_negative_zero(na_axis, na_ray.direction)
    /\ na_result = na_axis

====
